---- MODULE Spec2Model ----
(***************************************************************************)
(* A model of the scoring core of travelpygame: score_distances and        *)
(* score_round (scoring.py), make_leaderboards (scoring.py), the JSON      *)
(* persistence of rounds (tpg_data/io.py, tpg_data/classes.py) and         *)
(* Simulation.simulate_round (simulation.py).                              *)
(*                                                                         *)
(* Numbers.  Python floats are modelled as exact rationals plus NaN.  A    *)
(* number is a record [nan, hi, lo, den] standing for hi + lo/den with     *)
(* 0 <= lo < den and lo/den in lowest terms, so that equal values have     *)
(* equal records.  Distances are whole metres.  Coordinates are points of  *)
(* one meridian, a latitude being a whole number of arc units.             *)
(***************************************************************************)
EXTENDS Integers, Sequences, FiniteSets, TLC

\* ------------------------------------------------------------------------
\* Bounds of the model
\* ------------------------------------------------------------------------
MaxSubs == 3

\* ------------------------------------------------------------------------
\* Exact arithmetic standing for the float arithmetic of numpy / pandas
\* ------------------------------------------------------------------------
\* Optional values: None is the empty tuple, a present value v is <<v>>
None == <<>>

Some(v) == <<v>>

Val(o) == o[1]

\* The element of a one-element set.  The({e : x \in {v}}) is e with x
\* standing for the value of v, v being evaluated once.
The(S) == CHOOSE x \in S : TRUE

RECURSIVE GCD(_, _)
GCD(a, b) == The({IF y = 0 THEN x ELSE GCD(y, x % y) : x \in {a}, y \in {b}})

LCM(a, b) == The({(x \div g) * y : x \in {a}, y \in {b}, g \in {GCD(a, b)}})

NaN == [nan |-> TRUE, hi |-> 0, lo |-> 0, den |-> 1]

\* the rational num/den, den > 0
Frac(num, den) ==
    The({[nan |-> FALSE, hi |-> n \div d, lo |-> (n % d) \div g, den |-> d \div g]
            : n \in {num}, d \in {den}, g \in {GCD(num % den, den)}})

Num(i) == [nan |-> FALSE, hi |-> i, lo |-> 0, den |-> 1]

Add(a, b) ==
    The({IF x.nan \/ y.nan THEN NaN
         ELSE The({The({[f EXCEPT !.hi = x.hi + y.hi + f.hi]
                          : f \in {Frac(x.lo * (L \div x.den) + y.lo * (L \div y.den), L)}})
                     : L \in {LCM(x.den, y.den)}})
            : x \in {a}, y \in {b}})

Negate(a) ==
    The({IF x.nan THEN NaN
         ELSE IF x.lo = 0 THEN [x EXCEPT !.hi = 0 - x.hi]
         ELSE [x EXCEPT !.hi = 0 - x.hi - 1, !.lo = x.den - x.lo]
            : x \in {a}})

Subtract(a, b) == Add(a, Negate(b))

\* a / 2
Halve(a) ==
    The({IF x.nan THEN NaN
         ELSE The({[f EXCEPT !.hi = x.hi \div 2]
                     : f \in {Frac((x.hi % 2) * x.den + x.lo, 2 * x.den)}})
            : x \in {a}})

\* a < b; every comparison with NaN is false, as for IEEE floats
Less(a, b) ==
    \E x \in {a}, y \in {b} :
        /\ ~x.nan
        /\ ~y.nan
        /\ \/ x.hi < y.hi
           \/ /\ x.hi = y.hi
              /\ \E L \in {LCM(x.den, y.den)} :
                    x.lo * (L \div x.den) < y.lo * (L \div y.den)

Leq(a, b) == \E x \in {a}, y \in {b} : ~x.nan /\ ~y.nan /\ ~Less(y, x)

\* d * p / q for whole d, without forming d * p
MulFrac(d, p, q) ==
    The({Add(Num((x \div z) * y), Frac((x % z) * y, z)) : x \in {d}, y \in {p}, z \in {q}})

RECURSIVE Pow10(_)
Pow10(k) == IF k = 0 THEN 1 ELSE 10 * Pow10(k - 1)

\* Series.round(places): to the nearest multiple of 10^-places, halves to even
RoundTo(a, places) ==
    The({IF x.nan THEN NaN
         ELSE The({The({Frac(x.hi * P + q
                              + (IF \/ 2 * r > x.den
                                    \/ (2 * r = x.den /\ (x.hi * P + q) % 2 = 1)
                                 THEN 1 ELSE 0), P)
                          : q \in {(x.lo * P) \div x.den}, r \in {(x.lo * P) % x.den}})
                     : P \in {Pow10(places)}})
            : x \in {a}})

\* ------------------------------------------------------------------------
\* ScoringOptions (scoring.py)
\* ------------------------------------------------------------------------
\* 4.003006 as the fraction 2001503 / 500000
MainDistanceDivisor == <<2001503, 500000>>

main_tpg_scoring ==
    [fivek_flat_score |-> None,
     fivek_bonus |-> Some(Num(2000)),
     rank_bonuses |-> Some((1 :> Num(3000)) @@ (2 :> Num(2000)) @@ (3 :> Num(1000))),
     antipode_5k_flat_score |-> Some(Num(10000)),
     world_distance_km |-> 20000,
     round_to |-> Some(2),
     distance_divisor |-> Some(MainDistanceDivisor),
     clip_negative |-> TRUE,
     average_distance_and_rank |-> FALSE]

\* ScoringOptions(5000, None, None, None, world_distance_km=100): a regional
\* game with flat 5Ks and every other field at its default
regional_scoring ==
    [fivek_flat_score |-> Some(Num(5000)),
     fivek_bonus |-> None,
     rank_bonuses |-> None,
     antipode_5k_flat_score |-> None,
     world_distance_km |-> 100,
     round_to |-> Some(2),
     distance_divisor |-> None,
     clip_negative |-> TRUE,
     average_distance_and_rank |-> TRUE]

\* ScoringOptions(None, 500, {2: 1500}, 7000, round_to=None,
\* clip_negative=False, average_distance_and_rank=False): a runner-up bonus
\* only, scores left unrounded
runner_up_scoring ==
    [fivek_flat_score |-> None,
     fivek_bonus |-> Some(Num(500)),
     rank_bonuses |-> Some((2 :> Num(1500))),
     antipode_5k_flat_score |-> Some(Num(7000)),
     world_distance_km |-> 100,
     round_to |-> None,
     distance_divisor |-> None,
     clip_negative |-> FALSE,
     average_distance_and_rank |-> FALSE]

\* ScoringOptions(5000, 500, {1: 3000}, 7000, world_distance_km=100,
\* round_to=None, average_distance_and_rank=False): a flat 5K score given
\* together with a 5K bonus and a winner's bonus
flat_and_bonus_scoring ==
    [fivek_flat_score |-> Some(Num(5000)),
     fivek_bonus |-> Some(Num(500)),
     rank_bonuses |-> Some((1 :> Num(3000))),
     antipode_5k_flat_score |-> Some(Num(7000)),
     world_distance_km |-> 100,
     round_to |-> None,
     distance_divisor |-> None,
     clip_negative |-> TRUE,
     average_distance_and_rank |-> FALSE]

OptionSet == {main_tpg_scoring, regional_scoring, runner_up_scoring, flat_and_bonus_scoring}

\* ------------------------------------------------------------------------
\* score_distances (scoring.py)
\* ------------------------------------------------------------------------
\* (world_distance_km / 4) - ((distances / 1_000) / distance_divisor), or
\* (world_distance_km * 1_000 - distances) / 1_000
RawDistanceScore(d, options) ==
    IF options.distance_divisor # None
    THEN The({Subtract(Frac(options.world_distance_km, 4),
                       MulFrac(d, pq[2] \div g, (1000 \div g) * pq[1]))
                : pq \in {Val(options.distance_divisor)},
                  g \in {GCD(Val(options.distance_divisor)[2], 1000)}})
    ELSE Frac(options.world_distance_km * 1000 - d, 1000)

\* distance_scores.clip(0) when clip_negative
DistanceScore(d, options) ==
    The({IF options.clip_negative /\ Less(raw, Num(0)) THEN Num(0) ELSE raw
            : raw \in {RawDistanceScore(d, options)}})

RankMax_Descending(distances, i) ==
    Cardinality({j \in DOMAIN distances : distances[j] >= distances[i]})

\* distances.rank(method='max', ascending=True)
RankMax(distances, i) ==
    Cardinality({j \in DOMAIN distances : distances[j] <= distances[i]})

\* 5000 * (players_beaten / (n - 1)); 0.0 / 0 is NaN
PlayersBeatenScore(distances, i) ==
    The({IF n - 1 = 0 THEN NaN ELSE Frac(5000 * players_beaten, n - 1)
            : n \in {Len(distances)},
              players_beaten \in {Len(distances) - RankMax(distances, i)}})

BaseScore(distances, i, options) ==
    The({IF options.average_distance_and_rank THEN Halve(s) ELSE s
            : s \in {Add(DistanceScore(distances[i], options),
                         PlayersBeatenScore(distances, i))}})

DenseRank_Competition(scores, i) ==
    IF scores[i].nan THEN 0
    ELSE 1 + Cardinality({k \in DOMAIN scores : Less(scores[i], scores[k])})

\* scores.rank(method='dense', ascending=False); the rank of NaN is NaN (0 here)
DenseRank(scores, i) ==
    IF scores[i].nan THEN 0
    ELSE 1 + Cardinality({scores[j] : j \in {k \in DOMAIN scores : Less(scores[i], scores[k])}})

WithRankBonus(scores, i, options) ==
    IF options.rank_bonuses = None \/ DOMAIN Val(options.rank_bonuses) = {}
    THEN scores[i]
    ELSE The({IF rank \in DOMAIN Val(options.rank_bonuses)
              THEN Add(scores[i], Val(options.rank_bonuses)[rank])
              ELSE scores[i]
                : rank \in {DenseRank(scores, i)}})

WithFivek_BonusFirst(score, is_5k, options) ==
    IF options.fivek_bonus # None
    THEN IF is_5k THEN Add(score, Val(options.fivek_bonus)) ELSE score
    ELSE IF options.fivek_flat_score # None
    THEN IF is_5k THEN Val(options.fivek_flat_score) ELSE score
    ELSE score

\* scores[is_5k] = fivek_flat_score, elif scores[is_5k] += fivek_bonus
WithFivek(score, is_5k, options) ==
    IF options.fivek_flat_score # None
    THEN IF is_5k THEN Val(options.fivek_flat_score) ELSE score
    ELSE IF options.fivek_bonus # None
    THEN IF is_5k THEN Add(score, Val(options.fivek_bonus)) ELSE score
    ELSE score

WithAntipode(score, is_antipode_5k, options) ==
    IF options.antipode_5k_flat_score # None /\ is_antipode_5k
    THEN Val(options.antipode_5k_flat_score)
    ELSE score

\* a function on 1..n as a tuple, every element evaluated
Tuple(f) == <<>> \o f

score_distances(distances, is_5k, is_antipode_5k, options) ==
    The({The({The({IF options.round_to = None THEN adjusted
                   ELSE Tuple([i \in DOMAIN adjusted |->
                                 RoundTo(adjusted[i], Val(options.round_to))])
                     : adjusted \in
                         {Tuple([i \in DOMAIN ranked |->
                                   WithAntipode(WithFivek(ranked[i], is_5k[i], options),
                                                is_antipode_5k[i], options)])}})
                : ranked \in {Tuple([i \in DOMAIN base |-> WithRankBonus(base, i, options)])}})
            : base \in {Tuple([i \in DOMAIN distances |->
                                 BaseScore(distances, i, options)])}})

\* ------------------------------------------------------------------------
\* Submission and Round (tpg_data/classes.py)
\* ------------------------------------------------------------------------
\* A Submission object.  Submission objects live in the heap, a sequence
\* indexed by object reference; a Round holds the references of its
\* submissions in order.
Submission(name, latitude, is_5k, is_antipode_5k, distance) ==
    [name |-> name,
     latitude |-> latitude,
     longitude |-> 0,
     description |-> None,
     is_5k |-> is_5k,
     is_antipode_5k |-> is_antipode_5k,
     is_tie |-> FALSE,
     score |-> None,
     rank |-> None,
     distance |-> distance]

Round(name, number, latitude, submissions) ==
    [name |-> name,
     type |-> "normal",
     number |-> number,
     season |-> None,
     country_code |-> None,
     latitude |-> latitude,
     longitude |-> 0,
     submissions |-> submissions]

\* the Submission objects of round r in heap h, in list order
SubsOf(h, r) == [i \in DOMAIN r.submissions |-> h[r.submissions[i]]]

\* Round.is_scored
is_scored(h, r) == \A i \in DOMAIN r.submissions : h[r.submissions[i]].score # None

\* ------------------------------------------------------------------------
\* Distances (util/distance.py).  Coordinates are whole arc units near the
\* point (0, 0), where the arc between two points is the plane distance,
\* rounded down to a whole unit off the axes.
\* ------------------------------------------------------------------------
Abs(x) == IF x < 0 THEN 0 - x ELSE x

\* the largest r with r * r <= x, where lo * lo <= x < hi * hi
RECURSIVE ISqrtIn(_, _, _)
ISqrtIn(x, lo, hi) ==
    IF hi - lo <= 1 THEN lo
    ELSE The({IF mid * mid <= x THEN ISqrtIn(x, mid, hi) ELSE ISqrtIn(x, lo, mid)
                : mid \in {(lo + hi) \div 2}})

ArcUnits(lat1, lng1, lat2, lng2) ==
    The({IF dlng = 0 THEN dlat
         ELSE IF dlat = 0 THEN dlng
         ELSE ISqrtIn(dlat * dlat + dlng * dlng, 0, dlat + dlng)
            : dlat \in {Abs(lat2 - lat1)}, dlng \in {Abs(lng2 - lng1)}})

\* haversine_distance: r * c on the sphere of radius 6371 km, where the arc
\* unit is 50 m long
MetresPerArcUnit == 50

haversine_distance(lat1, lng1, lat2, lng2) ==
    MetresPerArcUnit * ArcUnits(lat1, lng1, lat2, lng2)

\* geod_distances: the WGS84 geodesic, which near (0, 0) is shorter than the
\* arc of the sphere: 49.72 m for the arc unit, to the whole metre
GeodMillimetresPerArcUnit == 49720

geod_distances(lat1, lng1, lat2, lng2) ==
    (GeodMillimetresPerArcUnit * ArcUnits(lat1, lng1, lat2, lng2)) \div 1000

\* get_distances((target_lat, target_lng), points, use_haversine=...) for
\* points a float array of (lng, lat) rows.  An array with two rows is
\* unpacked by rows (shape[0] == 2), so that the first row is taken for the
\* longitudes and the second for the latitudes; dist_func is the geodesic
\* when use_haversine is true.
get_distances(target_lat, target_lng, points, use_haversine) ==
    The({Tuple([i \in DOMAIN lats |->
                  IF use_haversine
                  THEN geod_distances(target_lat, target_lng, lats[i], lngs[i])
                  ELSE haversine_distance(target_lat, target_lng, lats[i], lngs[i])])
            : lngs \in {IF Len(points) = 2 THEN points[1]
                        ELSE Tuple([i \in DOMAIN points |-> points[i][1]])},
              lats \in {IF Len(points) = 2 THEN points[2]
                        ELSE Tuple([i \in DOMAIN points |-> points[i][2]])}})

\* get_distances(target_point, points, use_haversine=...) for points a
\* collection of shapely Points, here <<lng, lat>>: the coordinates are taken
\* point by point, and dist_func is as above
get_distances_of_points(target, points, use_haversine) ==
    Tuple([i \in DOMAIN points |->
             IF use_haversine
             THEN geod_distances(target[2], target[1], points[i][2], points[i][1])
             ELSE haversine_distance(target[2], target[1], points[i][2], points[i][1])])

\* distances.argmin(): the first index of the least distance
argmin(a) ==
    CHOOSE i \in DOMAIN a :
        (\A j \in DOMAIN a : a[i] <= a[j]) /\ (\A k \in 1 .. i - 1 : a[k] > a[i])

\* distances.argmax(): the first index of the greatest distance
argmax(a) ==
    CHOOSE i \in DOMAIN a :
        (\A j \in DOMAIN a : a[i] >= a[j]) /\ (\A k \in 1 .. i - 1 : a[k] < a[i])

\* get_closest_index(target_point, points, use_haversine=...): argmin of an
\* empty array is a ValueError
get_closest_index(target, points, use_haversine) ==
    The({IF a = <<>> THEN [exc |-> "ValueError", ret |-> None]
         ELSE [exc |-> "none", ret |-> Some(<<argmin(a), a[argmin(a)]>>)]
            : a \in {get_distances_of_points(target, points, use_haversine)}})

\* get_furthest_index(target_point, points, use_haversine=...)
get_furthest_index(target, points, use_haversine) ==
    The({IF a = <<>> THEN [exc |-> "ValueError", ret |-> None]
         ELSE [exc |-> "none", ret |-> Some(<<argmax(a), a[argmax(a)]>>)]
            : a \in {get_distances_of_points(target, points, use_haversine)}})

\* get_closest_point(target_point, points, use_haversine=...): through
\* get_distances for a Sequence; for another collection, visited here in the
\* order given, min() over a generator that measures with haversine_distance
\* if use_haversine and with geod_distance if not
get_closest_point(target, points, use_haversine, is_sequence) ==
    IF points = <<>> THEN [exc |-> "ValueError", ret |-> None]
    ELSE The({[exc |-> "none", ret |-> Some(<<points[argmin(a)], a[argmin(a)]>>)]
                : a \in {IF is_sequence
                         THEN get_distances_of_points(target, points, use_haversine)
                         ELSE Tuple([i \in DOMAIN points |->
                                       IF use_haversine
                                       THEN haversine_distance(target[2], target[1],
                                                               points[i][2], points[i][1])
                                       ELSE geod_distances(target[2], target[1],
                                                           points[i][2], points[i][1])])}})


\* ------------------------------------------------------------------------
\* score_round (scoring.py)
\* ------------------------------------------------------------------------
RoundDistances_OnlyMissing(subs, r, use_haversine) ==
    Tuple([i \in DOMAIN subs |->
             IF subs[i].distance # None THEN Val(subs[i].distance)
             ELSE IF use_haversine
             THEN haversine_distance(subs[i].latitude, subs[i].longitude,
                                     r.latitude, r.longitude)
             ELSE geod_distances(r.latitude, r.longitude,
                                 subs[i].latitude, subs[i].longitude)])

\* subs['distance'], recomputed for every row when any row lacks a distance:
\* with haversine_distance if use_haversine, else with the geodesic
RoundDistances(subs, r, use_haversine) ==
    IF \E i \in DOMAIN subs : subs[i].distance = None
    THEN Tuple([i \in DOMAIN subs |->
                  IF use_haversine
                  THEN haversine_distance(subs[i].latitude, subs[i].longitude,
                                          r.latitude, r.longitude)
                  ELSE geod_distances(r.latitude, r.longitude,
                                      subs[i].latitude, subs[i].longitude)])
    ELSE Tuple([i \in DOMAIN subs |-> Val(subs[i].distance)])

ResolveFivek_Overwrite(subs, distances, fivek_threshold) ==
    Tuple([i \in DOMAIN subs |-> Leq(Num(distances[i]), fivek_threshold)])

\* subs['is_5k'].astype('boolean').fillna(subs['distance'] <= fivek_threshold)
ResolveFivek(subs, distances, fivek_threshold) ==
    Tuple([i \in DOMAIN subs |->
             IF subs[i].is_5k = None THEN Leq(Num(distances[i]), fivek_threshold)
             ELSE Val(subs[i].is_5k)])

\* subs['is_antipode_5k'].astype('boolean').fillna(value=False)
ResolveAntipode(subs) ==
    Tuple([i \in DOMAIN subs |->
             IF subs[i].is_antipode_5k = None THEN FALSE ELSE Val(subs[i].is_antipode_5k)])

\* scores.rank(ascending=True) in place of ascending=False
AverageRankInt_Ascending(scores, i) ==
    Cardinality({j \in DOMAIN scores : Less(scores[j], scores[i])})
        + ((Cardinality({j \in DOMAIN scores : scores[j] = scores[i]}) + 1) \div 2)

\* scores.rank(ascending=False).astype(int): the average rank of the group of
\* equal scores, truncated
AverageRankInt(scores, i) ==
    Cardinality({j \in DOMAIN scores : Less(scores[i], scores[j])})
        + ((Cardinality({j \in DOMAIN scores : scores[j] = scores[i]}) + 1) \div 2)

\* an update= that leaves out 'distance'
ScoredSubmission_NoDistance(sub, rank, score, distance, is_5k) ==
    [sub EXCEPT !.rank = Some(rank),
                !.score = Some(score),
                !.is_5k = Some(is_5k)]

\* the update= of s.model_copy in score_round
ScoredSubmission(sub, rank, score, distance, is_5k) ==
    [sub EXCEPT !.rank = Some(rank),
                !.score = Some(score),
                !.distance = Some(distance),
                !.is_5k = Some(is_5k)]

\* the update applied to s itself in place of a copy
model_copy_InPlace(h, ref, new) ==
    [heap |-> [h EXCEPT ![ref] = new], ref |-> ref]

\* s.model_copy(update=...): a new object, the original is left alone
model_copy(h, ref, new) ==
    [heap |-> Append(h, new), ref |-> Len(h) + 1]

\* [s.model_copy(update=...) for i, s in enumerate(round_.submissions)], from
\* the i-th submission on
RECURSIVE CopyAll(_, _, _, _)
CopyAll(h, refs, new, i) ==
    IF i > Len(refs) THEN [heap |-> h, refs |-> <<>>]
    ELSE The({The({[heap |-> rest.heap, refs |-> <<c.ref>> \o rest.refs]
                     : rest \in {CopyAll(c.heap, refs, new, i + 1)}})
                : c \in {model_copy(h, refs[i], new[i])}})

\* list.sort(key=attrgetter('rank')): a stable sort of references by rank
RECURSIVE InsertByRank(_, _, _)
InsertByRank(h, sorted, ref) ==
    IF sorted = <<>> THEN <<ref>>
    ELSE IF Val(h[ref].rank) < Val(h[Head(sorted)].rank) THEN <<ref>> \o sorted
    ELSE The({<<Head(sorted)>> \o rest : rest \in {InsertByRank(h, Tail(sorted), ref)}})

RECURSIVE SortByRank(_, _)
SortByRank(h, refs) ==
    IF refs = <<>> THEN <<>>
    ELSE The({InsertByRank(h, front, refs[Len(refs)])
                : front \in {SortByRank(h, SubSeq(refs, 1, Len(refs) - 1))}})

\* the submissions of score_round once the scores are known
ScoredSubs(subs, distances, is_5k, scores) ==
    Tuple([i \in DOMAIN subs |->
             ScoredSubmission(subs[i], AverageRankInt(scores, i), scores[i],
                              distances[i], is_5k[i])])

\* the outcome of score_round(round_, options, fivek_threshold,
\* use_haversine=...): the heap after the call, the exception raised ("none"
\* if none) and the Round returned
score_round(h, round_, options, fivek_threshold, use_haversine) ==
    IF Len(round_.submissions) = 0
    THEN [heap |-> h, exc |-> "none", ret |-> Some(round_)]
    ELSE
    The({The({The({The({
        IF \E i \in DOMAIN scores : scores[i].nan
        THEN [heap |-> h, exc |-> "IntCastingNaNError", ret |-> None]
        ELSE The({[heap |-> copied.heap, exc |-> "none",
                   ret |-> Some([round_ EXCEPT
                                   !.submissions = SortByRank(copied.heap, copied.refs)])]
                    : copied \in {CopyAll(h, round_.submissions,
                                          ScoredSubs(subs, distances, is_5k, scores), 1)}})
        : scores \in {score_distances(distances, is_5k, ResolveAntipode(subs), options)}})
        : is_5k \in {ResolveFivek(subs, distances, fivek_threshold)}})
        : distances \in {RoundDistances(subs, round_, use_haversine)}})
        : subs \in {Tuple(SubsOf(h, round_))}})

\* ------------------------------------------------------------------------
\* make_leaderboards, _add_totals, _count_medals (scoring.py)
\* ------------------------------------------------------------------------
\* a / k for a whole k > 0
DivInt(a, k) ==
    The({IF x.nan THEN NaN ELSE Frac(x.hi * x.den + x.lo, x.den * k) : x \in {a}})

\* f'Round {r.number}'
FormatRoundNumber(number) ==
    CASE number = 1 -> "Round 1"
      [] number = 2 -> "Round 2"
      [] OTHER -> "Round n"

\* r.name or f'Round {r.number}'
RoundLabel(r) ==
    IF r.name # None /\ Val(r.name) # "" THEN Val(r.name) ELSE FormatRoundNumber(r.number)

\* the (round label, submission) pairs in the order the two loops visit them
RECURSIVE AllEntries(_, _, _)
AllEntries(h, rounds, k) ==
    IF k > Len(rounds) THEN <<>>
    ELSE Tuple([i \in DOMAIN rounds[k].submissions |->
                  [label |-> RoundLabel(rounds[k]), sub |-> h[rounds[k].submissions[i]]]])
            \o AllEntries(h, rounds, k + 1)

\* the keys of a dict in insertion order
RECURSIVE Keys(_, _)
Keys(entries, k) ==
    IF k = 0 THEN <<>>
    ELSE The({IF \E i \in DOMAIN front : front[i] = entries[k] THEN front
              ELSE Append(front, entries[k])
                : front \in {Keys(entries, k - 1)}})

\* points[name][sub.name] = ...: the value of the last assignment, if any
Cell(entries, values, label, name) ==
    The({IF hits = {} THEN None
         ELSE Some(values[CHOOSE k \in hits : \A j \in hits : j <= k])
            : hits \in {{k \in DOMAIN entries :
                           entries[k].label = label /\ entries[k].sub.name = name}}})

\* pandas.DataFrame(dict of dicts): a column per outer key, a row per inner key
DataFrame(entries, values) ==
    The({[columns |-> columns,
          index |-> index,
          cells |-> [name \in {index[i] : i \in DOMAIN index} |->
                       [label \in {columns[i] : i \in DOMAIN columns} |->
                          Cell(entries, values, label, name)]]]
            : columns \in {Keys(Tuple([k \in DOMAIN entries |-> entries[k].label]),
                                Len(entries))},
              index \in {Keys(Tuple([k \in DOMAIN entries |-> entries[k].sub.name]),
                              Len(entries))}})

\* DataFrame.dropna(): the rows without a missing cell
dropna(df) ==
    [df EXCEPT !.index = SelectSeq(df.index,
                            LAMBDA name : \A i \in DOMAIN df.columns :
                                             df.cells[name][df.columns[i]] # None)]

\* df.sum(axis='columns') for one row: missing cells are skipped
RECURSIVE SumCells(_, _, _)
SumCells(row, columns, k) ==
    IF k = 0 THEN Num(0)
    ELSE IF row[columns[k]] = None THEN SumCells(row, columns, k - 1)
    ELSE Add(SumCells(row, columns, k - 1), Val(row[columns[k]]))

\* a stable sort of names by key, ascending or descending
RECURSIVE InsertByKey(_, _, _, _)
InsertByKey(sorted, name, key, ascending) ==
    IF sorted = <<>> THEN <<name>>
    ELSE IF (IF ascending THEN Less(key[name], key[Head(sorted)])
                          ELSE Less(key[Head(sorted)], key[name]))
    THEN <<name>> \o sorted
    ELSE The({<<Head(sorted)>> \o rest
                : rest \in {InsertByKey(Tail(sorted), name, key, ascending)}})

RECURSIVE sort_values(_, _, _)
sort_values(index, key, ascending) ==
    IF index = <<>> THEN <<>>
    ELSE The({InsertByKey(front, index[Len(index)], key, ascending)
                : front \in {sort_values(SubSeq(index, 1, Len(index) - 1), key, ascending)}})

\* _add_totals: Total is inserted first, then Average divides by the number
\* of columns the frame has by then, Total included
add_totals(df, ascending) ==
    The({[columns |-> df.columns,
          index |-> sort_values(df.index, total, ascending),
          cells |-> df.cells,
          Total |-> total,
          Average |-> [name \in DOMAIN total |-> DivInt(total[name], Len(df.columns) + 1)]]
            : total \in {[name \in {df.index[i] : i \in DOMAIN df.index} |->
                            SumCells(df.cells[name], df.columns, Len(df.columns))]}})

\* Medal
Gold == 3

Silver == 2

Bronze == 1

\* medals[sub.name].append(Medal(4 - sub.rank)) for every submission with a
\* rank from 1 to 3
MedalsOf(entries, name) ==
    SelectSeq(Tuple([k \in DOMAIN entries |->
                       IF /\ entries[k].sub.name = name
                          /\ entries[k].sub.rank # None
                          /\ Val(entries[k].sub.rank) # 0
                          /\ Val(entries[k].sub.rank) <= 3
                       THEN 4 - Val(entries[k].sub.rank) ELSE 0]),
              LAMBDA medal : medal # 0)

CountOf(medals, medal) == Cardinality({i \in DOMAIN medals : medals[i] = medal})

RECURSIVE SumSeq(_, _)
SumSeq(seq, k) == IF k = 0 THEN 0 ELSE seq[k] + SumSeq(seq, k - 1)

\* sum(player_medals)
MedalScore(medals) == SumSeq(medals, Len(medals))

\* _count_medals: a row per player with a medal, sorted by Medal Score
count_medals(entries) ==
    The({[index |-> sort_values(winners,
                                [name \in {winners[i] : i \in DOMAIN winners} |->
                                    Num(MedalScore(MedalsOf(entries, name)))],
                                FALSE),
          rows |-> [name \in {winners[i] : i \in DOMAIN winners} |->
                      The({[Gold |-> CountOf(medals, Gold),
                            Silver |-> CountOf(medals, Silver),
                            Bronze |-> CountOf(medals, Bronze),
                            MedalScore |-> MedalScore(medals)]
                              : medals \in {MedalsOf(entries, name)}})]]
            : winners \in
                {SelectSeq(Keys(Tuple([k \in DOMAIN entries |-> entries[k].sub.name]),
                                Len(entries)),
                           LAMBDA name : MedalsOf(entries, name) # <<>>)}})

make_leaderboards_ScoreOnly(h, rounds) ==
    The({IF \E k \in DOMAIN entries : entries[k].sub.score = None
         THEN [exc |-> "ValueError", ret |-> None]
         ELSE [exc |-> "none",
               ret |-> Some([points |->
                               add_totals(DataFrame(entries,
                                              Tuple([k \in DOMAIN entries |->
                                                       Val(entries[k].sub.score)])),
                                          FALSE),
                             distance |-> None,
                             medals |-> count_medals(entries)])]
            : entries \in {AllEntries(h, rounds, 1)}})

\* the outcome of make_leaderboards(rounds): the exception raised ("none" if
\* none) and the three tables returned
make_leaderboards(h, rounds) ==
    The({IF \E k \in DOMAIN entries :
               entries[k].sub.score = None \/ entries[k].sub.distance = None
         THEN [exc |-> "ValueError", ret |-> None]
         ELSE [exc |-> "none",
               ret |-> Some([points |->
                               add_totals(DataFrame(entries,
                                              Tuple([k \in DOMAIN entries |->
                                                       Val(entries[k].sub.score)])),
                                          FALSE),
                             distance |->
                               add_totals(dropna(DataFrame(entries,
                                              Tuple([k \in DOMAIN entries |->
                                                       Frac(Val(entries[k].sub.distance),
                                                            1000)]))),
                                          TRUE),
                             medals |-> count_medals(entries)])]
            : entries \in {AllEntries(h, rounds, 1)}})

\* ------------------------------------------------------------------------
\* rounds_to_json and load_rounds (tpg_data/io.py): round_list_adapter
\* (tpg_data/classes.py).  A JSON object is a function from its keys.
\* ------------------------------------------------------------------------
\* the fields declared 'T | None'
SubmissionOptional ==
    {"description", "is_5k", "is_antipode_5k", "score", "rank", "distance"}

RoundOptional == {"name", "season", "country_code"}

\* the fields declared without a default
SubmissionRequired == {"name", "latitude", "longitude"}

RoundRequired == {"name", "number", "latitude", "longitude", "submissions"}

\* the defaults of the other fields
SubmissionDefaults ==
    [description |-> None, is_5k |-> None, is_antipode_5k |-> None, is_tie |-> FALSE,
     score |-> None, rank |-> None, distance |-> None]

RoundDefaults == [type |-> "normal", season |-> None, country_code |-> None]

\* dump_json(..., exclude_none=True) of one model: a None field is left out
DumpModel(obj, optional) ==
    [key \in {k \in DOMAIN obj : k \in optional => obj[k] # None} |->
        IF key \in optional THEN Val(obj[key]) ELSE obj[key]]

\* rounds_to_json(rounds); the substitution of tabs changes white space only
rounds_to_json(h, rounds) ==
    Tuple([k \in DOMAIN rounds |->
             DumpModel([rounds[k] EXCEPT
                          !.submissions =
                              Tuple([i \in DOMAIN rounds[k].submissions |->
                                       DumpModel(h[rounds[k].submissions[i]],
                                                 SubmissionOptional)])],
                       RoundOptional)])

\* validation of one JSON object: a key that is absent takes its default
ValidateModel(obj, optional, defaults) ==
    [key \in DOMAIN obj \cup DOMAIN defaults |->
        IF key \notin DOMAIN obj THEN defaults[key]
        ELSE IF key \in optional THEN Some(obj[key])
        ELSE obj[key]]

\* round_list_adapter.validate_json(content): a required key that is absent
\* is a ValidationError
load_rounds(json) ==
    IF \E k \in DOMAIN json :
         \/ ~(RoundRequired \subseteq DOMAIN json[k])
         \/ \E i \in DOMAIN json[k].submissions :
               ~(SubmissionRequired \subseteq DOMAIN json[k].submissions[i])
    THEN [exc |-> "ValidationError", ret |-> None]
    ELSE [exc |-> "none",
          ret |-> Some(Tuple([k \in DOMAIN json |->
                     ValidateModel(
                        [json[k] EXCEPT
                           !.submissions =
                               Tuple([i \in DOMAIN json[k].submissions |->
                                        ValidateModel(json[k].submissions[i],
                                                      SubmissionOptional,
                                                      SubmissionDefaults)])],
                        RoundOptional, RoundDefaults)]))]

\* a list of Rounds as plain values, each submission in place of its reference
RoundValues(h, rounds) ==
    Tuple([k \in DOMAIN rounds |->
             [rounds[k] EXCEPT !.submissions = Tuple(SubsOf(h, rounds[k]))]])

\* ------------------------------------------------------------------------
\* get_round_summary and get_player_summary (simulation.py)
\* ------------------------------------------------------------------------
\* statistics.mean of the values of a field that are not None (Optionals
\* here), for a non-empty selection
MeanOf(values) ==
    The({DivInt(SumCells(known, Tuple([i \in DOMAIN known |-> i]), Len(known)),
                Len(known))
            : known \in {SelectSeq(values, LAMBDA v : v # None)}})

\* the distances of the submissions of a round, as numbers
DistancesOf(h, r) ==
    Tuple([i \in DOMAIN r.submissions |->
             IF h[r.submissions[i]].distance = None THEN None
             ELSE Some(Num(Val(h[r.submissions[i]].distance)))])

ScoresOf(h, r) == Tuple([i \in DOMAIN r.submissions |-> h[r.submissions[i]].score])

\* sum(sub.distance is not None and sub.distance < average_distance ...)
NumCloserThan(h, r, average_distance) ==
    Cardinality({i \in DOMAIN r.submissions :
                    /\ h[r.submissions[i]].distance # None
                    /\ Less(Num(Val(h[r.submissions[i]].distance)), average_distance)})

\* _add_submission_summary: what the row keeps of a submission
submission_summary(sub) ==
    [name |-> sub.name, score |-> sub.score, distance |-> sub.distance,
     lat |-> sub.latitude, lng |-> sub.longitude]

\* the body of the loop of get_round_summary for one round: the exception it
\* raises, or the row
round_summary_row(h, r, include_podium, include_loser) ==
    IF r.name = None THEN [exc |-> "AssertionError", row |-> None]
    ELSE IF \A i \in DOMAIN r.submissions : h[r.submissions[i]].distance = None
    THEN [exc |-> "StatisticsError", row |-> None]
    ELSE IF \A i \in DOMAIN r.submissions : h[r.submissions[i]].score = None
    THEN [exc |-> "StatisticsError", row |-> None]
    ELSE IF include_podium /\ Len(r.submissions) < 3
    THEN [exc |-> "IndexError", row |-> None]
    ELSE [exc |-> "none",
          row |-> Some([round |-> Val(r.name),
                        average_score |-> MeanOf(ScoresOf(h, r)),
                        average_distance |-> MeanOf(DistancesOf(h, r)),
                        num_closer_than_average |->
                            NumCloserThan(h, r, MeanOf(DistancesOf(h, r))),
                        winner |-> submission_summary(h[r.submissions[1]]),
                        silver |-> IF include_podium
                                   THEN Some(submission_summary(h[r.submissions[2]]))
                                   ELSE None,
                        bronze |-> IF include_podium
                                   THEN Some(submission_summary(h[r.submissions[3]]))
                                   ELSE None,
                        loser |-> IF include_loser
                                  THEN Some(submission_summary(
                                                h[r.submissions[Len(r.submissions)]]))
                                  ELSE None])]

\* get_round_summary(new_rounds, include_podium=..., include_loser=...) for a
\* list of rounds, player_name not given: the exception raised and the rows
\* of the frame.  set_index('round') on a frame without rows is a KeyError.
get_round_summary(h, new_rounds, include_podium, include_loser) ==
    The({IF \E k \in DOMAIN made : made[k].exc # "none"
         THEN [exc |-> made[CHOOSE k \in DOMAIN made :
                                /\ made[k].exc # "none"
                                /\ \A j \in 1 .. k - 1 : made[j].exc = "none"].exc,
               ret |-> None]
         ELSE IF made = <<>> THEN [exc |-> "KeyError", ret |-> None]
         ELSE [exc |-> "none", ret |-> Some(Tuple([k \in DOMAIN made |-> Val(made[k].row)]))]
            : made \in {Tuple([k \in DOMAIN new_rounds |->
                                 round_summary_row(h, new_rounds[k], include_podium,
                                                   include_loser)])}})

\* the first loop of get_player_summary for one round: the exception raised
player_summary_round(h, r) ==
    IF r.name = None THEN "AssertionError"
    ELSE IF \A i \in DOMAIN r.submissions : h[r.submissions[i]].distance = None
    THEN "StatisticsError"
    ELSE IF \E i \in DOMAIN r.submissions :
               \/ h[r.submissions[i]].score = None
               \/ h[r.submissions[i]].distance = None
               \/ h[r.submissions[i]].rank = None
    THEN "AssertionError"
    ELSE "none"

\* the (round, submission) pairs of a player, in the order of the loops
PlayerEntries(h, new_rounds, name) ==
    SelectSeq(AllEntries(h, new_rounds, 1), LAMBDA entry : entry.sub.name = name)

\* Counter(ranks_by_round[name])[rank]
rank_counter(h, new_rounds, name, rank) ==
    The({Cardinality({k \in DOMAIN mine : mine[k].sub.rank = Some(rank)})
            : mine \in {PlayerEntries(h, new_rounds, name)}})

\* times_above_average[name]: the rounds in which the player's submission is
\* nearer than the mean distance of the round
times_closer_than_average(h, new_rounds, name) ==
    Cardinality(UNION {{<<k, i>> : i \in {j \in DOMAIN new_rounds[k].submissions :
                                    /\ h[new_rounds[k].submissions[j]].name = name
                                    /\ Less(Num(Val(h[new_rounds[k].submissions[j]].distance)),
                                            MeanOf(DistancesOf(h, new_rounds[k])))}}
                          : k \in DOMAIN new_rounds})

\* the row of get_player_summary for one player; num_players is
\* len(scores_by_round)
player_summary_row(h, new_rounds, entries, name, num_players) ==
    The({[total |-> SumCells([label \in {labels[i] : i \in DOMAIN labels} |->
                                Cell(entries,
                                     Tuple([k \in DOMAIN entries |->
                                              Val(entries[k].sub.score)]),
                                     label, name)],
                             labels, Len(labels)),
          total_distance |->
              SumSeq(Tuple([k \in DOMAIN mine |-> Val(mine[k].sub.distance)]), Len(mine)),
          times_closer_than_average |-> times_closer_than_average(h, new_rounds, name),
          rounds_won |-> rank_counter(h, new_rounds, name, 1),
          rounds_podiummed |-> rank_counter(h, new_rounds, name, 1)
                                  + rank_counter(h, new_rounds, name, 2)
                                  + rank_counter(h, new_rounds, name, 3),
          rounds_lost |-> rank_counter(h, new_rounds, name, num_players)]
            : labels \in {Keys(Tuple([k \in DOMAIN entries |-> entries[k].label]),
                               Len(entries))},
              mine \in {PlayerEntries(h, new_rounds, name)}})

\* get_player_summary(new_rounds) for a list of rounds: the exception raised
\* and the frame, a row per player sorted by total.  set_index('name') on a
\* frame without rows is a KeyError.
get_player_summary(h, new_rounds) ==
    The({IF \E k \in DOMAIN checks : checks[k] # "none"
         THEN [exc |-> checks[CHOOSE k \in DOMAIN checks :
                                  /\ checks[k] # "none"
                                  /\ \A j \in 1 .. k - 1 : checks[j] = "none"],
               ret |-> None]
         ELSE The({IF names = <<>> THEN [exc |-> "KeyError", ret |-> None]
                   ELSE The({[exc |-> "none",
                              ret |-> Some([index |->
                                               sort_values(names,
                                                   [name \in DOMAIN rows |-> rows[name].total],
                                                   FALSE),
                                            rows |-> rows])]
                               : rows \in {[name \in {names[i] : i \in DOMAIN names} |->
                                              player_summary_row(h, new_rounds, entries,
                                                                 name, Len(names))]}})
                     : entries \in {AllEntries(h, new_rounds, 1)},
                       names \in {Keys(Tuple([k \in DOMAIN AllEntries(h, new_rounds, 1) |->
                                                AllEntries(h, new_rounds, 1)[k].sub.name]),
                                       Len(AllEntries(h, new_rounds, 1)))}})
            : checks \in {Tuple([k \in DOMAIN new_rounds |->
                                   player_summary_round(h, new_rounds[k])])}})

\* ------------------------------------------------------------------------
\* State
\* ------------------------------------------------------------------------
VARIABLES
    pc,               \* where the caller is
    heap,             \* the Submission objects, by reference
    round_,           \* the Round passed to score_round
    options,          \* the ScoringOptions passed to score_round
    fivek_threshold,  \* the fivek_threshold passed to score_round
    ret,              \* the Round returned, None before the call or on a raise
    exc,              \* the exception raised, "none" if none
    rounds,           \* a list of Rounds: read from a file, or simulated
    boards,           \* the tables returned by make_leaderboards, or None
    json,             \* the text written by rounds_to_json, or None
    loaded,           \* the list returned by load_rounds, or None
    distances,        \* a vector of distances passed to score_distances
    closer,           \* that vector with one distance replaced by a smaller one
    scores,           \* the scores returned for the two vectors, or None
    simulation,       \* the Simulation object, or None
    query,            \* the comparison called on the round, or None
    diffs,            \* the SubmissionDifferences it returned or yielded
    replay,           \* what a second call of simulate_rounds did, or None
    summary,          \* the summary asked of a list of rounds and its outcome, or None
    use_haversine,    \* the use_haversine passed to score_round
    measure           \* the distance query called and its outcome, or None

vars ==
    <<pc, heap, round_, options, fivek_threshold, ret, exc, rounds, boards, json, loaded,
      distances, closer, scores, simulation, query, diffs, replay, summary,
      use_haversine, measure>>

\* the variables of a comparison of submissions
compVars == <<query, diffs>>

\* the variables of the choice of a metric
metricVars == <<use_haversine, measure>>

\* the variables of a simulation
simVars == <<simulation, replay, summary>>

\* the variables of a list of rounds
roundsVars == <<rounds, boards, json, loaded>>

\* the variables of a comparison of two calls of score_distances
distVars == <<distances, closer, scores>>

\* ------------------------------------------------------------------------
\* Inputs of score_round
\* ------------------------------------------------------------------------
\* the default fivek_threshold=0.1 of score_round, and a caller's 100
fivek_threshold_default == Frac(1, 10)

FivekThresholds == {fivek_threshold_default, Num(100)}

\* a distance stored on a submission before scoring, in metres; it need not
\* agree with the coordinates
StoredDistance == 75

\* latitudes of submissions, in arc units from the target at latitude 0:
\* on the target, 50 m, 50 km and 200 km away
Latitudes == {0, 1, 1000, 4000}

\* what a submission handed to score_round looks like:
\* <<latitude, is_5k, is_antipode_5k, distance>>
SubmissionInputs ==
    {<<lat, None, None, None>> : lat \in Latitudes}
        \cup {<<1000, Some(TRUE), None, None>>,
              <<0, Some(FALSE), None, None>>,
              <<4000, None, Some(TRUE), None>>,
              <<4000, Some(TRUE), Some(TRUE), None>>,
              <<1, None, None, Some(StoredDistance)>>,
              <<1000, None, None, Some(StoredDistance)>>}

TargetLatitude == 0

NoRound == Round(None, 0, 0, <<>>)

\* no list of rounds is in play
NoRounds == rounds = <<>> /\ boards = None /\ json = None /\ loaded = None

\* no comparison of score_distances is in play
NoDistances == distances = <<>> /\ closer = <<>> /\ scores = None

\* no Simulation has been constructed
NoSimulation == simulation = None /\ replay = None /\ summary = None

\* no distance query has been called
NoMeasure == measure = None

\* no comparison of submissions has been called
NoComparison == query = None /\ diffs = <<>>

\* no call of score_round is in play
NoScoring ==
    /\ round_ = NoRound
    /\ options = main_tpg_scoring
    /\ fivek_threshold = fivek_threshold_default
    /\ use_haversine = TRUE
    /\ ret = None

InitScore ==
    /\ pc = "call"
    /\ \E n \in 0 .. MaxSubs : \E inp \in [1 .. n -> SubmissionInputs] :
          /\ heap = [i \in 1 .. n |->
                        Submission(i, inp[i][1], inp[i][2], inp[i][3], inp[i][4])]
          /\ round_ = Round(Some("R1"), 1, TargetLatitude, [i \in 1 .. n |-> i])
    /\ options \in OptionSet
    /\ fivek_threshold \in FivekThresholds
    /\ use_haversine \in BOOLEAN
    /\ ret = None
    /\ exc = "none"
    /\ NoRounds
    /\ NoDistances
    /\ NoSimulation
    /\ NoComparison
    /\ NoMeasure

\* the call score_round(round_, options, fivek_threshold, use_haversine=...)
ScoreRound ==
    /\ pc \in {"call", "compared"}
    /\ \E out \in {score_round(heap, round_, options, fivek_threshold, use_haversine)} :
           /\ heap' = out.heap
           /\ exc' = out.exc
           /\ ret' = out.ret
           /\ pc' = IF out.exc = "none" THEN "returned" ELSE "raised"
    /\ UNCHANGED <<round_, options, fivek_threshold, metricVars, roundsVars, distVars, simVars,
                   compVars>>

NextScore == ScoreRound

SpecScore == InitScore /\ [][NextScore]_vars

\* ------------------------------------------------------------------------
\* Lists of rounds: make_leaderboards, rounds_to_json, load_rounds
\* ------------------------------------------------------------------------
MaxRounds == 2

MaxPlayers == 2

\* <<name, number, season, country_code>> of a round of the list
RoundIdentities ==
    {<<None, 1, None, None>>,
     <<None, 1, Some(2), None>>,
     <<Some("Final"), 2, Some(2), Some("AU")>>}

\* the submission a scored round holds for the player placed at rank: the
\* latitude is rank arc units from the target
StoredSubmission(name, rank) ==
    [Submission(name, rank, Some(FALSE), IF rank = 1 THEN Some(FALSE) ELSE None,
                Some(haversine_distance(rank, 0, TargetLatitude, 0)))
        EXCEPT !.description = IF rank = 1 THEN Some("pic") ELSE None,
               !.score = Some(Subtract(Frac(1299999, 100), Num(3500 * (rank - 1)))),
               !.rank = Some(rank)]

\* what a submission that is not fully scored lacks
Flaws == {"none", "score", "distance", "both"}

Unscored(sub, flaw) ==
    CASE flaw = "none" -> sub
      [] flaw = "score" -> [sub EXCEPT !.score = None, !.rank = None]
      [] flaw = "distance" -> [sub EXCEPT !.distance = None]
      [] flaw = "both" -> [sub EXCEPT !.score = None, !.rank = None, !.distance = None]

\* a round of the list: its identity and the players who submitted
RoundInputs == RoundIdentities \X SUBSET (1 .. MaxPlayers)

\* the heap and the list of rounds made from inputs k, k+1, ...; the players
\* of a round are placed in the order of their names
RECURSIVE BuildRounds(_, _, _)
BuildRounds(inp, k, h) ==
    IF k > Len(inp) THEN [heap |-> h, rounds |-> <<>>]
    ELSE The({The({[heap |-> rest.heap,
                    rounds |-> <<[name |-> inp[k][1][1],
                                  type |-> "normal",
                                  number |-> inp[k][1][2],
                                  season |-> inp[k][1][3],
                                  country_code |-> inp[k][1][4],
                                  latitude |-> TargetLatitude,
                                  longitude |-> 0,
                                  submissions |->
                                      Tuple([i \in DOMAIN present |-> Len(h) + i])]>>
                                \o rest.rounds]
                     : rest \in {BuildRounds(inp, k + 1,
                                    h \o Tuple([i \in DOMAIN present |->
                                                  StoredSubmission(present[i], i)]))}})
                : present \in {SelectSeq(Tuple([p \in 1 .. MaxPlayers |-> p]),
                                         LAMBDA p : p \in inp[k][2])}})

\* the rounds are scored, but for the first or the last submission, which
\* may lack its score, its distance or both
InitRounds ==
    /\ pc = "start"
    /\ \E n \in 0 .. MaxRounds : \E inp \in [1 .. n -> RoundInputs] :
          \E built \in {BuildRounds(inp, 1, <<>>)} :
              /\ rounds = built.rounds
              /\ IF built.heap = <<>> THEN heap = <<>>
                 ELSE \E flaw \in Flaws : \E at \in {1, Len(built.heap)} :
                         heap = [built.heap EXCEPT ![at] = Unscored(built.heap[at], flaw)]
    /\ boards = None
    /\ json = None
    /\ loaded = None
    /\ exc = "none"
    /\ NoScoring
    /\ NoDistances
    /\ NoSimulation
    /\ NoComparison
    /\ NoMeasure

\* the call make_leaderboards(rounds)
MakeLeaderboards ==
    /\ pc \in {"start", "simulated"}
    /\ \E out \in {make_leaderboards(heap, rounds)} :
           /\ boards' = out.ret
           /\ exc' = out.exc
           /\ pc' = IF out.exc = "none" THEN "boards" ELSE "raised"
    /\ UNCHANGED <<heap, round_, options, fivek_threshold, metricVars, ret, rounds, json, loaded, distVars,
                   simVars, compVars>>

\* what a summary of the list of rounds leaves alone
SummaryFrame ==
    UNCHANGED <<heap, round_, options, fivek_threshold, metricVars, ret, roundsVars, distVars,
                simulation, replay, compVars>>

\* the call get_round_summary(rounds, include_podium=..., include_loser=...)
GetRoundSummary ==
    /\ pc \in {"start", "simulated"}
    /\ \E include_podium, include_loser \in BOOLEAN :
          \E out \in {get_round_summary(heap, rounds, include_podium, include_loser)} :
              /\ summary' = Some([op |-> "get_round_summary",
                                  include_podium |-> include_podium,
                                  include_loser |-> include_loser,
                                  ret |-> out.ret])
              /\ exc' = out.exc
    /\ pc' = "summarised"
    /\ SummaryFrame

\* the call get_player_summary(rounds)
GetPlayerSummary ==
    /\ pc \in {"start", "simulated"}
    /\ \E out \in {get_player_summary(heap, rounds)} :
          /\ summary' = Some([op |-> "get_player_summary",
                              include_podium |-> TRUE,
                              include_loser |-> TRUE,
                              ret |-> out.ret])
          /\ exc' = out.exc
    /\ pc' = "summarised"
    /\ SummaryFrame

\* the call rounds_to_json(rounds), the text being written to a file
RoundsToJson ==
    /\ pc = "start"
    /\ json' = Some(rounds_to_json(heap, rounds))
    /\ pc' = "saved"
    /\ UNCHANGED <<heap, round_, options, fivek_threshold, metricVars, ret, exc, rounds, boards, loaded,
                   distVars, simVars, compVars>>

\* the call load_rounds(path) on that file
LoadRounds ==
    /\ pc = "saved"
    /\ \E out \in {load_rounds(Val(json))} :
           /\ loaded' = out.ret
           /\ exc' = out.exc
           /\ pc' = IF out.exc = "none" THEN "loaded" ELSE "raised"
    /\ UNCHANGED <<heap, round_, options, fivek_threshold, metricVars, ret, rounds, boards, json, distVars,
                   simVars, compVars>>

NextRounds ==
    \/ MakeLeaderboards
    \/ RoundsToJson
    \/ LoadRounds
    \/ GetRoundSummary
    \/ GetPlayerSummary

SpecRounds == InitRounds /\ [][NextRounds]_vars

\* ------------------------------------------------------------------------
\* score_distances on a vector of distances and on the same vector with one
\* submission closer, no submission being a 5K or an antipode 5K
\* ------------------------------------------------------------------------
\* distances in metres: on the target, 50 m, 50 km, and 200 km, which is
\* further than the world_distance_km of a regional game
DistanceInputs == {0, 50, 50000, 200000}

NoFlags(n) == [i \in 1 .. n |-> FALSE]

InitDist ==
    /\ pc = "call"
    /\ \E n \in 1 .. MaxSubs : \E ds \in [1 .. n -> DistanceInputs] :
          \E i \in 1 .. n : \E d \in {x \in DistanceInputs : x < ds[i]} :
              /\ distances = Tuple(ds)
              /\ closer = Tuple([ds EXCEPT ![i] = d])
    /\ options \in OptionSet
    /\ scores = None
    /\ heap = <<>>
    /\ round_ = NoRound
    /\ fivek_threshold = fivek_threshold_default
    /\ use_haversine = TRUE
    /\ ret = None
    /\ exc = "none"
    /\ NoRounds
    /\ NoSimulation
    /\ NoComparison
    /\ NoMeasure

\* score_distances(distances, is_5k, is_antipode_5k, options) for both vectors
ScoreDistances ==
    /\ pc = "call"
    /\ scores = None
    /\ distances # <<>>
    /\ scores' = Some(<<score_distances(distances, NoFlags(Len(distances)),
                                        NoFlags(Len(distances)), options),
                        score_distances(closer, NoFlags(Len(closer)),
                                        NoFlags(Len(closer)), options)>>)
    /\ pc' = "returned"
    /\ UNCHANGED <<heap, round_, options, fivek_threshold, metricVars, ret, exc, roundsVars,
                   distances, closer, simVars, compVars>>

NextDist == ScoreDistances

SpecDist == InitDist /\ [][NextDist]_vars

\* ------------------------------------------------------------------------
\* get_best_pic (best_pics.py) and Simulation (simulation.py)
\* ------------------------------------------------------------------------
\* _get_best_pic_inner: min(generator, key=itemgetter(1)), the first of the
\* nearest pics; <<index, distance in metres>>
get_best_pic_inner(lats, target_lat) ==
    The({The({<<CHOOSE i \in DOMAIN dists :
                   /\ dists[i] = best
                   /\ \A j \in DOMAIN dists : dists[j] = best => i <= j,
                best>>
                 : best \in {CHOOSE d \in {dists[i] : i \in DOMAIN dists} :
                                \A i \in DOMAIN dists : d <= dists[i]}})
            : dists \in {Tuple([i \in DOMAIN lats |->
                                  haversine_distance(lats[i], 0, target_lat, 0)])}})

\* the parameters of get_best_pic(pics, target, *, use_haversine=False)
get_best_pic_parameters == {"pics", "target", "use_haversine"}

\* get_best_pic called with two positional arguments and these keyword
\* arguments: a keyword that is not a parameter is a TypeError
get_best_pic(pics, target_lat, keywords) ==
    IF ~(keywords \subseteq get_best_pic_parameters)
    THEN [exc |-> "TypeError", ret |-> None]
    ELSE [exc |-> "none", ret |-> Some(get_best_pic_inner(pics, target_lat))]

\* SimulatedStrategy
Closest == "Closest"

Furthest == "Furthest"

Random == "Random"

\* Simulation._choose_pic(point_set, target); sampled is the index drawn by
\* point_set.points.sample(1).  The index labels are integers, so the
\* description is None.
choose_pic(sim, point_set, target_lat, sampled) ==
    IF sim.strategy = Random
    THEN [exc |-> "none", point |-> point_set.points[sampled], distance |-> None]
    ELSE The({IF best.exc # "none"
              THEN [exc |-> best.exc, point |-> 0, distance |-> None]
              ELSE [exc |-> "none",
                    point |-> point_set.points[Val(best.ret)[1]],
                    distance |-> Some(Val(best.ret)[2])]
                : best \in {get_best_pic(point_set.points, target_lat,
                                         {"use_haversine", "reverse"})}})

\* Simulation.simulate_round(name, number, target) on heap h: the new heap,
\* the exception raised and the Round returned
simulate_round(h, sim, name, number, target_lat, sampled) ==
    The({IF \E p \in DOMAIN chosen : chosen[p].exc # "none"
         THEN [heap |-> h,
               exc |-> chosen[CHOOSE p \in DOMAIN chosen : chosen[p].exc # "none"].exc,
               ret |-> None]
         ELSE score_round(h \o Tuple([p \in DOMAIN chosen |->
                                        Submission(sim.point_sets[p].name, chosen[p].point,
                                                   None, None, chosen[p].distance)]),
                          Round(Some(name), number, target_lat,
                                Tuple([p \in DOMAIN chosen |-> Len(h) + p])),
                          sim.scoring, fivek_threshold_default, sim.use_haversine)
            : chosen \in {Tuple([p \in DOMAIN sim.point_sets |->
                                   choose_pic(sim, sim.point_sets[p], target_lat,
                                              sampled[p])])}})

\* round_order.get(name, i) of the item at index i, counted from 0
OrderKey(sim, items, k) ==
    IF items[k][1] \in DOMAIN Val(sim.round_order)
    THEN Val(sim.round_order)[items[k][1]]
    ELSE k - 1

\* sorted(enumerate(items), key=...): a stable sort of the first k items
RECURSIVE SortedItems(_, _, _)
SortedItems(sim, items, k) ==
    IF k = 0 THEN <<>>
    ELSE The({The({SubSeq(front, 1, before) \o <<items[k]>>
                      \o SubSeq(front, before + 1, Len(front))
                     : before \in {Cardinality({j \in 1 .. k - 1 :
                                        OrderKey(sim, items, j) <= OrderKey(sim, items, k)})}})
                : front \in {SortedItems(sim, items, k - 1)}})

\* the items of self.rounds in the order simulate_rounds visits them
OrderedItems(sim) ==
    IF sim.round_order = None \/ DOMAIN Val(sim.round_order) = {}
    THEN sim.rounds
    ELSE SortedItems(sim, sim.rounds, Len(sim.rounds))

\* the loop of simulate_rounds from item k on
RECURSIVE SimulateFrom(_, _, _, _, _)
SimulateFrom(h, sim, items, k, sampled) ==
    IF k > Len(items) THEN [heap |-> h, exc |-> "none", ret |-> <<>>]
    ELSE The({IF first.exc # "none" THEN [heap |-> first.heap, exc |-> first.exc, ret |-> <<>>]
              ELSE The({[heap |-> rest.heap,
                         exc |-> rest.exc,
                         ret |-> IF rest.exc # "none" THEN <<>>
                                 ELSE <<Val(first.ret)>> \o rest.ret]
                          : rest \in {SimulateFrom(first.heap, sim, items, k + 1, sampled)}})
                : first \in {simulate_round(h, sim, items[k][1], k, items[k][2],
                                            sampled[k])}})

\* Simulation.simulate_rounds()
simulate_rounds(h, sim, sampled) == SimulateFrom(h, sim, OrderedItems(sim), 1, sampled)

\* the candidate points of a player, as latitudes in arc units
PointSetInputs == {<<0 - 1>>, <<1>>, <<1, 1000>>, <<1000, 0 - 1>>}

\* the targets of the rounds, by name in insertion order
RoundsInputs ==
    {<<>>} \cup {<<<<"A", t>>>> : t \in {0, 1000}}
           \cup {<<<<"A", t>>, <<"B", u>>>> : t, u \in {0, 1000}}

RoundOrderInputs == {None, Some(("A" :> 2) @@ ("B" :> 1))}

InitSim ==
    /\ pc = "simulation"
    /\ \E n \in 0 .. MaxPlayers : \E sets \in [1 .. n -> PointSetInputs] :
          \E targets \in RoundsInputs, order \in RoundOrderInputs,
             scoring \in {main_tpg_scoring, regional_scoring},
             strategy \in {Closest, Furthest, Random} :
              simulation = Some([rounds |-> targets,
                                 round_order |-> order,
                                 point_sets |-> Tuple([p \in 1 .. n |->
                                                         [name |-> p, points |-> sets[p]]]),
                                 scoring |-> scoring,
                                 strategy |-> strategy,
                                 use_haversine |-> TRUE])
    /\ replay = None
    /\ summary = None
    /\ heap = <<>>
    /\ exc = "none"
    /\ NoScoring
    /\ NoRounds
    /\ NoDistances
    /\ NoComparison
    /\ NoMeasure

\* the indexes point_set.points.sample(1) can draw, for every round and
\* every point set
Samples(sim) ==
    [DOMAIN sim.rounds ->
        {f \in [DOMAIN sim.point_sets -> 1 .. 2] :
            \A p \in DOMAIN sim.point_sets :
                IF sim.strategy = Random THEN f[p] \in DOMAIN sim.point_sets[p].points
                ELSE f[p] = 1}]

\* the call simulation.simulate_rounds()
SimulateRounds ==
    /\ pc = "simulation"
    /\ \E sampled \in Samples(Val(simulation)) :
          \E out \in {simulate_rounds(heap, Val(simulation), sampled)} :
              /\ heap' = out.heap
              /\ exc' = out.exc
              /\ rounds' = out.ret
              /\ pc' = IF out.exc = "none" THEN "simulated" ELSE "raised"
    /\ UNCHANGED <<round_, options, fivek_threshold, metricVars, ret, boards, json, loaded, distVars,
                   simVars, compVars>>

\* a second call simulation.simulate_rounds() on the same Simulation
SimulateRoundsAgain ==
    /\ pc \in {"simulated", "raised"}
    /\ simulation # None
    /\ replay = None
    /\ \E sampled \in Samples(Val(simulation)) :
          \E out \in {simulate_rounds(heap, Val(simulation), sampled)} :
              /\ heap' = out.heap
              /\ replay' = Some([exc |-> out.exc, rounds |-> out.ret])
    /\ UNCHANGED <<pc, round_, options, fivek_threshold, metricVars, ret, exc, roundsVars, distVars,
                   simulation, summary, compVars>>

NextSim ==
    \/ SimulateRounds
    \/ SimulateRoundsAgain
    \/ MakeLeaderboards
    \/ GetRoundSummary
    \/ GetPlayerSummary

SpecSim == InitSim /\ [][NextSim]_vars

\* ------------------------------------------------------------------------
\* Submission comparison (submission_comparison.py)
\* ------------------------------------------------------------------------
\* the (longitude, latitude) rows of the submissions of a round
PointRows(h, r) ==
    Tuple([i \in DOMAIN r.submissions |->
             <<h[r.submissions[i]].longitude, h[r.submissions[i]].latitude>>])

\* sorted(..., key=...) is stable: the indexes of whole keys in ascending
\* order, equal keys in their order in the list
SortedByKey(keys) ==
    Tuple([p \in DOMAIN keys |->
             CHOOSE i \in DOMAIN keys :
                 p = 1 + Cardinality({j \in DOMAIN keys :
                                        keys[j] < keys[i] \/ (keys[j] = keys[i] /\ j < i)})])

\* sorted(round_.submissions, key=attrgetter('distance'))
SortedByDistance(h, refs) ==
    The({Tuple([p \in DOMAIN order |-> refs[order[p]]])
            : order \in {SortedByKey(Tuple([i \in DOMAIN refs |-> Val(h[refs[i]].distance)]))}})

\* sorted(round_.submissions, key=attrgetter('score'), reverse=True): equal
\* scores stay in their order in the list
SortedByScore(h, refs) ==
    Tuple([p \in DOMAIN refs |->
             refs[CHOOSE i \in DOMAIN refs :
                     p = 1 + Cardinality({j \in DOMAIN refs :
                            \/ Less(Val(h[refs[i]].score), Val(h[refs[j]].score))
                            \/ /\ Val(h[refs[j]].score) = Val(h[refs[i]].score)
                               /\ j < i})]])

\* sorted(enumerate(round_.submissions), key=lambda i_sub: a[i_sub[0]])
SortedByComputed(refs, a) ==
    The({Tuple([p \in DOMAIN order |-> refs[order[p]]]) : order \in {SortedByKey(a)}})

\* SubmissionDifference(...), player and rival being Submission objects
SubmissionDifference(r, num_players, player, placing, rival) ==
    [round_name |-> r.name,
     target |-> <<r.longitude, r.latitude>>,
     round_num_players |-> num_players,
     player |-> player.name,
     player_pic |-> <<player.longitude, player.latitude>>,
     player_pic_description |-> player.description,
     player_score |-> player.score,
     player_distance |-> Val(player.distance),
     player_placing |-> placing,
     rival |-> rival.name,
     rival_pic |-> <<rival.longitude, rival.latitude>>,
     rival_pic_description |-> rival.description,
     rival_score |-> rival.score,
     rival_distance |-> Val(rival.distance)]

\* SubmissionDifference.score_diff
score_diff(diff) ==
    IF diff.player_score = None \/ diff.rival_score = None THEN None
    ELSE Some(Subtract(Val(diff.rival_score), Val(diff.player_score)))

distance_diff_Reversed(diff) == diff.rival_distance - diff.player_distance

\* SubmissionDifference.distance_diff
distance_diff(diff) == diff.player_distance - diff.rival_distance

\* the submissions a comparison sorts have keys that compare: a None among
\* two or more keys is a TypeError
KeysCompare(h, refs, by_score) ==
    \/ Len(refs) < 2
    \/ by_score
    \/ \A i \in DOMAIN refs : h[refs[i]].distance # None

\* find_next_highest_placing from 'index = sorted_subs.index(submission)'
\* on: list.index finds the first element equal to the submission
NextHighestIn(h, r, sorted_subs, submission) ==
    IF \A p \in DOMAIN sorted_subs : h[sorted_subs[p]] # h[submission]
    THEN [heap |-> h, exc |-> "ValueError", ret |-> None]
    ELSE The({IF index = 0 THEN [heap |-> h, exc |-> "none", ret |-> None]
              ELSE IF h[submission].distance = None \/ h[sorted_subs[index]].distance = None
              THEN [heap |-> h, exc |-> "AssertionError", ret |-> None]
              ELSE [heap |-> h,
                    exc |-> "none",
                    ret |-> Some(SubmissionDifference(r, Len(sorted_subs), h[submission],
                                                      index + 1, h[sorted_subs[index]]))]
                : index \in {(CHOOSE p \in DOMAIN sorted_subs :
                                 /\ h[sorted_subs[p]] = h[submission]
                                 /\ \A q \in 1 .. p - 1 : h[sorted_subs[q]] # h[submission])
                              - 1}})

\* round_.submissions[i].distance = a[i] for every i
WithDistances(h, r, a) ==
    [ref \in DOMAIN h |->
        IF \E i \in DOMAIN r.submissions : r.submissions[i] = ref
        THEN [h[ref] EXCEPT !.distance =
                 Some(a[CHOOSE i \in DOMAIN r.submissions : r.submissions[i] = ref])]
        ELSE h[ref]]

\* find_next_highest_placing(round_, submission, by_score=..., use_haversine
\* =True): the new heap, the exception raised and the value returned
find_next_highest_placing(h, r, submission, by_score) ==
    IF ~is_scored(h, r)
    THEN IF by_score THEN [heap |-> h, exc |-> "ValueError", ret |-> None]
         ELSE The({NextHighestIn(h2, r, SortedByDistance(h2, r.submissions), submission)
                     : h2 \in {Tuple(WithDistances(h, r,
                                  get_distances(r.latitude, r.longitude, PointRows(h, r),
                                                TRUE)))}})
    ELSE IF ~KeysCompare(h, r.submissions, by_score)
    THEN [heap |-> h, exc |-> "TypeError", ret |-> None]
    ELSE NextHighestIn(h, r,
                       IF by_score THEN SortedByScore(h, r.submissions)
                       ELSE SortedByDistance(h, r.submissions),
                       submission)

\* Round.find_player(name): the reference of the first submission with that
\* name, or None
find_player(h, r, name) ==
    IF \A i \in DOMAIN r.submissions : h[r.submissions[i]].name # name THEN None
    ELSE Some(r.submissions[CHOOSE i \in DOMAIN r.submissions :
                               /\ h[r.submissions[i]].name = name
                               /\ \A j \in 1 .. i - 1 : h[r.submissions[j]].name # name])

\* compare_player_in_round(round_, name, by_score=...)
compare_player_in_round(h, r, name, by_score) ==
    The({IF player_submission = None THEN [heap |-> h, exc |-> "none", ret |-> None]
         ELSE find_next_highest_placing(h, r, Val(player_submission), by_score)
            : player_submission \in {find_player(h, r, name)}})

\* the loop of find_all_next_highest_placings over pairwise(sorted_subs)
\* from pair k on: the differences yielded and the exception that ends it
RECURSIVE PairwiseFrom(_, _, _, _)
PairwiseFrom(h, r, sorted_subs, k) ==
    IF k >= Len(sorted_subs) THEN [exc |-> "none", ret |-> <<>>]
    ELSE IF h[sorted_subs[k + 1]].distance = None \/ h[sorted_subs[k]].distance = None
    THEN [exc |-> "AssertionError", ret |-> <<>>]
    ELSE The({[exc |-> rest.exc,
               ret |-> <<SubmissionDifference(r, Len(sorted_subs), h[sorted_subs[k + 1]],
                                              k + 1, h[sorted_subs[k]])>> \o rest.ret]
                : rest \in {PairwiseFrom(h, r, sorted_subs, k + 1)}})

\* list(find_all_next_highest_placings(round_, by_score=...)): the
\* differences yielded before the generator ends or raises
find_all_next_highest_placings(h, r, by_score) ==
    IF ~is_scored(h, r)
    THEN IF by_score THEN [exc |-> "ValueError", ret |-> <<>>]
         ELSE PairwiseFrom(h, r,
                           SortedByComputed(r.submissions,
                               get_distances(r.latitude, r.longitude, PointRows(h, r), TRUE)),
                           1)
    ELSE IF ~KeysCompare(h, r.submissions, by_score)
    THEN [exc |-> "TypeError", ret |-> <<>>]
    ELSE PairwiseFrom(h, r,
                      IF by_score THEN SortedByScore(h, r.submissions)
                      ELSE SortedByDistance(h, r.submissions),
                      1)

\* the loop of find_all_closest_placings from round k on
RECURSIVE ClosestPlacingsFrom(_, _, _, _, _)
ClosestPlacingsFrom(h, rs, k, name, by_score) ==
    IF k > Len(rs) THEN [heap |-> h, exc |-> "none", ret |-> <<>>]
    ELSE The({IF first.exc # "none" THEN [heap |-> first.heap, exc |-> first.exc, ret |-> <<>>]
              ELSE The({[heap |-> rest.heap, exc |-> rest.exc, ret |-> first.ret \o rest.ret]
                          : rest \in {ClosestPlacingsFrom(first.heap, rs, k + 1, name,
                                                          by_score)}})
                : first \in
                    {IF name # None
                     THEN The({[heap |-> one.heap,
                                exc |-> one.exc,
                                ret |-> IF one.ret = None THEN <<>> ELSE <<Val(one.ret)>>]
                                 : one \in {compare_player_in_round(h, rs[k], Val(name),
                                                                    by_score)}})
                     ELSE The({[heap |-> h, exc |-> all.exc, ret |-> all.ret]
                                 : all \in {find_all_next_highest_placings(h, rs[k],
                                                                           by_score)}})}})

\* list(find_all_closest_placings(rounds, name, by_score=...))
find_all_closest_placings(h, rs, name, by_score) ==
    ClosestPlacingsFrom(h, rs, 1, name, by_score)

\* bisect.bisect(a, x): the binary search of bisect_right between lo and hi
RECURSIVE bisect(_, _, _, _)
bisect(a, x, lo, hi) ==
    IF lo >= hi THEN lo
    ELSE The({IF x < a[mid + 1] THEN bisect(a, x, lo, mid) ELSE bisect(a, x, mid + 1, hi)
                : mid \in {(lo + hi) \div 2}})

\* [sub.distance for sub in round_.submissions if sub.distance is not None]
KnownDistances(h, r) ==
    The({Tuple([i \in DOMAIN known |-> Val(h[known[i]].distance)])
            : known \in {SelectSeq(r.submissions, LAMBDA ref : h[ref].distance # None)}})

\* new_distance_rank(distance, round_) (new_pic_eval.py)
new_distance_rank(h, r, distance) ==
    The({IF known = <<>> THEN 1
         ELSE The({bisect(sorted, distance, 0, Len(sorted)) + 1
                     : sorted \in {Tuple([p \in DOMAIN known |->
                                            known[SortedByKey(known)[p]]])}})
            : known \in {KnownDistances(h, r)}})

\* find_new_next_highest_distance(round_, name, new_point, new_distance,
\* use_haversine=True), new_rank and new_pic_desc not supplied; new_point
\* is a latitude on the meridian of the target
find_new_next_highest_distance(h, r, name, new_point, new_distance) ==
    IF is_scored(h, r) /\ ~KeysCompare(h, r.submissions, FALSE)
    THEN [exc |-> "TypeError", ret |-> None]
    ELSE The({IF new_rank = 1 THEN [exc |-> "none", ret |-> None]
              ELSE IF h[sorted_subs[new_rank - 1]].distance = None
              THEN [exc |-> "AssertionError", ret |-> None]
              ELSE [exc |-> "none",
                    ret |-> Some(SubmissionDifference(r, Len(sorted_subs),
                                    [Submission(name, new_point, None, None, Some(distance))
                                        EXCEPT !.longitude = r.longitude],
                                    new_rank, h[sorted_subs[new_rank - 1]]))]
                : sorted_subs \in
                    {IF ~is_scored(h, r)
                     THEN SortedByComputed(r.submissions,
                              get_distances(r.latitude, r.longitude, PointRows(h, r), TRUE))
                     ELSE SortedByDistance(h, r.submissions)},
                  distance \in
                    {IF new_distance = None
                     THEN haversine_distance(r.latitude, r.longitude, new_point, r.longitude)
                     ELSE Val(new_distance)},
                  new_rank \in
                    {bisect(KnownDistances(h, r),
                            IF new_distance = None
                            THEN haversine_distance(r.latitude, r.longitude, new_point,
                                                    r.longitude)
                            ELSE Val(new_distance),
                            0, Len(KnownDistances(h, r))) + 1}})

\* ------------------------------------------------------------------------
\* Comparisons called on a round before or after it is scored
\* ------------------------------------------------------------------------
\* what a submission of a round to compare looks like:
\* <<latitude, is_5k, is_antipode_5k, distance>>
CompareInputs ==
    {<<lat, None, None, None>> : lat \in Latitudes} \cup {<<4000, None, Some(TRUE), None>>}

\* the latitude of a hypothetical new pic
NewLatitudes == {0, 1, 2, 1200, 5000}

InitCompare ==
    /\ pc = "call"
    /\ \E n \in 0 .. MaxSubs : \E inp \in [1 .. n -> CompareInputs] :
          /\ heap = [i \in 1 .. n |->
                        Submission(i, inp[i][1], inp[i][2], inp[i][3], inp[i][4])]
          /\ round_ = Round(Some("R1"), 1, TargetLatitude, [i \in 1 .. n |-> i])
    /\ options = main_tpg_scoring
    /\ fivek_threshold = fivek_threshold_default
    /\ use_haversine = TRUE
    /\ ret = None
    /\ exc = "none"
    /\ NoRounds
    /\ NoDistances
    /\ NoSimulation
    /\ NoComparison
    /\ NoMeasure

\* the round a comparison is called on: the scored round once score_round
\* has returned, the round as given before
CurrentRound == IF pc = "returned" THEN Val(ret) ELSE round_

\* a comparison may be called once, before or after the round is scored
CanCompare == pc \in {"call", "returned"} /\ query = None

\* the caller after a comparison
AfterCompare == IF pc = "call" THEN "compared" ELSE "done"

Query(op, subject, by_score, new_point, new_distance) ==
    Some([op |-> op, subject |-> subject, by_score |-> by_score,
          new_point |-> new_point, new_distance |-> new_distance])

\* what every comparison leaves alone
CompareFrame ==
    UNCHANGED <<round_, options, fivek_threshold, metricVars, ret, roundsVars, distVars, simVars>>

\* the call find_next_highest_placing(round_, round_.submissions[i], by_score=...)
FindNextHighestPlacing ==
    /\ CanCompare
    /\ \E i \in DOMAIN CurrentRound.submissions : \E by_score \in BOOLEAN :
          \E out \in {find_next_highest_placing(heap, CurrentRound, CurrentRound.submissions[i],
                                                by_score)} :
              /\ query' = Query("find_next_highest_placing",
                                Some(heap[CurrentRound.submissions[i]].name), by_score, 0, None)
              /\ heap' = out.heap
              /\ exc' = out.exc
              /\ diffs' = IF out.ret = None THEN <<>> ELSE <<Val(out.ret)>>
    /\ pc' = AfterCompare
    /\ CompareFrame

\* the call compare_player_in_round(round_, name, by_score=...)
ComparePlayerInRound ==
    /\ CanCompare
    /\ \E name \in 1 .. Len(CurrentRound.submissions) + 1 : \E by_score \in BOOLEAN :
          \E out \in {compare_player_in_round(heap, CurrentRound, name, by_score)} :
              /\ query' = Query("compare_player_in_round", Some(name), by_score, 0, None)
              /\ heap' = out.heap
              /\ exc' = out.exc
              /\ diffs' = IF out.ret = None THEN <<>> ELSE <<Val(out.ret)>>
    /\ pc' = AfterCompare
    /\ CompareFrame

\* the call list(find_all_next_highest_placings(round_, by_score=...))
FindAllNextHighestPlacings ==
    /\ CanCompare
    /\ \E by_score \in BOOLEAN :
          \E out \in {find_all_next_highest_placings(heap, CurrentRound, by_score)} :
              /\ query' = Query("find_all_next_highest_placings", None, by_score, 0, None)
              /\ exc' = out.exc
              /\ diffs' = out.ret
    /\ pc' = AfterCompare
    /\ UNCHANGED heap
    /\ CompareFrame

\* the call list(find_all_closest_placings([round_], name, by_score=...))
FindAllClosestPlacings ==
    /\ CanCompare
    /\ \E name \in {None} \cup {Some(p) : p \in 1 .. Len(CurrentRound.submissions) + 1} :
          \E by_score \in BOOLEAN :
              \E out \in {find_all_closest_placings(heap, <<CurrentRound>>, name, by_score)} :
                  /\ query' = Query("find_all_closest_placings", name, by_score, 0, None)
                  /\ heap' = out.heap
                  /\ exc' = out.exc
                  /\ diffs' = out.ret
    /\ pc' = AfterCompare
    /\ CompareFrame

\* the call find_new_next_highest_distance(round_, name, new_point,
\* new_distance, use_haversine=True) for a player who is not in the round
FindNewNextHighestDistance ==
    /\ CanCompare
    /\ \E new_point \in NewLatitudes : \E new_distance \in {None, Some(StoredDistance)} :
          \E out \in {find_new_next_highest_distance(heap, CurrentRound,
                           Len(CurrentRound.submissions) + 1, new_point, new_distance)} :
              /\ query' = Query("find_new_next_highest_distance",
                                Some(Len(CurrentRound.submissions) + 1), FALSE, new_point,
                                new_distance)
              /\ exc' = out.exc
              /\ diffs' = IF out.ret = None THEN <<>> ELSE <<Val(out.ret)>>
    /\ pc' = AfterCompare
    /\ UNCHANGED heap
    /\ CompareFrame

NextCompare ==
    \/ ScoreRound
    \/ FindNextHighestPlacing
    \/ ComparePlayerInRound
    \/ FindAllNextHighestPlacings
    \/ FindAllClosestPlacings
    \/ FindNewNextHighestDistance

SpecCompare == InitCompare /\ [][NextCompare]_vars

\* ------------------------------------------------------------------------
\* The distance queries of util/distance.py, called on the candidate points
\* of a player
\* ------------------------------------------------------------------------
\* shapely Points <<lng, lat>> on the meridian of the target
PointInputs == {<<0, lat>> : lat \in Latitudes}

TargetInputs == {<<0, 0>>, <<0, 1000>>}

InitQuery ==
    /\ pc = "query"
    /\ heap = <<>>
    /\ exc = "none"
    /\ NoScoring
    /\ NoRounds
    /\ NoDistances
    /\ NoSimulation
    /\ NoComparison
    /\ NoMeasure

\* the arguments of a distance query
Measure(op, target, points, haversine, is_sequence, result) ==
    Some([op |-> op, target |-> target, points |-> points, use_haversine |-> haversine,
          is_sequence |-> is_sequence, ret |-> result])

\* what a distance query leaves alone
QueryFrame ==
    UNCHANGED <<heap, round_, options, fivek_threshold, use_haversine, ret, roundsVars,
                distVars, simVars, compVars>>

\* the call get_distances(target, points, use_haversine=...)
GetDistances ==
    /\ pc = "query"
    /\ \E n \in 0 .. MaxSubs : \E points \in [1 .. n -> PointInputs] :
          \E target \in TargetInputs, haversine \in BOOLEAN :
              /\ measure' = Measure("get_distances", target, Tuple(points), haversine, TRUE,
                                    Some(get_distances_of_points(target, Tuple(points),
                                                                 haversine)))
              /\ exc' = "none"
    /\ pc' = "measured"
    /\ QueryFrame

\* the call get_closest_index(target, points, use_haversine=...)
GetClosestIndex ==
    /\ pc = "query"
    /\ \E n \in 0 .. MaxSubs : \E points \in [1 .. n -> PointInputs] :
          \E target \in TargetInputs, haversine \in BOOLEAN :
              \E out \in {get_closest_index(target, Tuple(points), haversine)} :
                  /\ measure' = Measure("get_closest_index", target, Tuple(points),
                                        haversine, TRUE, out.ret)
                  /\ exc' = out.exc
    /\ pc' = "measured"
    /\ QueryFrame

\* the call get_furthest_index(target, points, use_haversine=...)
GetFurthestIndex ==
    /\ pc = "query"
    /\ \E n \in 0 .. MaxSubs : \E points \in [1 .. n -> PointInputs] :
          \E target \in TargetInputs, haversine \in BOOLEAN :
              \E out \in {get_furthest_index(target, Tuple(points), haversine)} :
                  /\ measure' = Measure("get_furthest_index", target, Tuple(points),
                                        haversine, TRUE, out.ret)
                  /\ exc' = out.exc
    /\ pc' = "measured"
    /\ QueryFrame

\* the call get_closest_point(target, points, use_haversine=...) with the
\* points in a list or in a collection that is not a Sequence
GetClosestPoint ==
    /\ pc = "query"
    /\ \E n \in 0 .. MaxSubs : \E points \in [1 .. n -> PointInputs] :
          \E target \in TargetInputs, haversine \in BOOLEAN, is_sequence \in BOOLEAN :
              \E out \in {get_closest_point(target, Tuple(points), haversine,
                                            is_sequence)} :
                  /\ measure' = Measure("get_closest_point", target, Tuple(points),
                                        haversine, is_sequence, out.ret)
                  /\ exc' = out.exc
    /\ pc' = "measured"
    /\ QueryFrame

NextQuery == GetDistances \/ GetClosestIndex \/ GetFurthestIndex \/ GetClosestPoint

SpecQuery == InitQuery /\ [][NextQuery]_vars

\* ------------------------------------------------------------------------
\* Properties of score_round
\* ------------------------------------------------------------------------
\* the submissions of the argument and of the returned Round, as they are now
ArgSubs == SubsOf(heap, round_)

RetSubs == SubsOf(heap, Val(ret))

NumSubs == Len(round_.submissions)

Called == pc # "call"

Returned == pc = "returned"

\* C1: score_round on a Round with exactly one submission that is neither a
\* 5K nor an antipode 5K completes without raising and returns the submission
\* with a finite score and rank 1.
C1_SingleSubmissionScored ==
    (/\ Called
     /\ NumSubs = 1
     /\ ~ResolveFivek(ArgSubs, RoundDistances(ArgSubs, round_, use_haversine), fivek_threshold)[1]
     /\ ~ResolveAntipode(ArgSubs)[1])
    => /\ exc = "none"
       /\ ret # None
       /\ RetSubs[1].score # None
       /\ ~Val(RetSubs[1].score).nan
       /\ RetSubs[1].rank = Some(1)

\* Scenario A: three submissions with unknown is_5k, no antipode flag and no
\* stored distance, 50 m, 50 km and 200 km from the target, scored with
\* main_tpg_scoring and the default fivek_threshold
ScenarioA ==
    /\ NumSubs = 3
    /\ {ArgSubs[i].latitude : i \in 1 .. 3} = {1, 1000, 4000}
    /\ \A i \in 1 .. 3 : /\ ArgSubs[i].is_5k = None
                         /\ ArgSubs[i].is_antipode_5k = None
                         /\ ArgSubs[i].distance = None
    /\ options = main_tpg_scoring
    /\ fivek_threshold = fivek_threshold_default
    /\ use_haversine

\* C2: in scenario A the nearest submission is resolved as a 5K and scores
\* exactly fivek_bonus + the rank-1 bonus + its base score, and the ranks are
\* 1, 2, 3 in increasing distance order.
C2_ScenarioAScore ==
    (Called /\ ScenarioA)
    => /\ Returned
       /\ RetSubs[1].is_5k = Some(TRUE)
       /\ RetSubs[1].score =
            Some(RoundTo(Add(Add(BaseScore(<<50, 50000, 200000>>, 1, main_tpg_scoring),
                                 Val(main_tpg_scoring.rank_bonuses)[1]),
                             Val(main_tpg_scoring.fivek_bonus)), 2))
       /\ \A i \in 1 .. 3 : RetSubs[i].rank = Some(i)
       /\ <<RetSubs[1].distance, RetSubs[2].distance, RetSubs[3].distance>>
            = <<Some(50), Some(50000), Some(200000)>>

\* C3: the ranks of a returned Round of n >= 1 submissions are exactly
\* 1..n, no two submissions sharing a rank.
C3_RanksArePermutation ==
    (Returned /\ NumSubs >= 1)
    => /\ {Val(RetSubs[i].rank) : i \in 1 .. NumSubs} = 1 .. NumSubs
       /\ \A i, j \in 1 .. NumSubs : i # j => RetSubs[i].rank # RetSubs[j].rank

\* C5: a returned Round of at least one submission has a non-null distance,
\* score and rank on every submission, and is_scored is true.
C5_ScoredRoundPopulated ==
    (Returned /\ NumSubs >= 1)
    => /\ \A i \in DOMAIN RetSubs : /\ RetSubs[i].distance # None
                                   /\ RetSubs[i].score # None
                                   /\ RetSubs[i].rank # None
       /\ is_scored(heap, Val(ret))

C5_Witness ==
    /\ Returned
    /\ NumSubs >= 2
    /\ \E i \in DOMAIN ArgSubs : ArgSubs[i].distance = None
    /\ ~is_scored(heap, round_)
    /\ is_scored(heap, Val(ret))

\* C6: a returned Round lists its submissions in ascending order of rank,
\* that order is non-increasing in score, and a submission with a strictly
\* higher score never has a larger rank than one with a lower score.
C6_RankOrder ==
    Returned
    => /\ \A i, j \in DOMAIN RetSubs :
            i < j => /\ Val(RetSubs[i].rank) <= Val(RetSubs[j].rank)
                     /\ ~Less(Val(RetSubs[i].score), Val(RetSubs[j].score))
       /\ \A i, j \in DOMAIN RetSubs :
            Less(Val(RetSubs[j].score), Val(RetSubs[i].score))
                => Val(RetSubs[i].rank) < Val(RetSubs[j].rank)

\* a returned round whose submissions had to be reordered
C6_Witness ==
    /\ Returned
    /\ NumSubs >= 2
    /\ \E i \in DOMAIN RetSubs : RetSubs[i].name # ArgSubs[i].name
    /\ \E i, j \in DOMAIN RetSubs : RetSubs[i].score # RetSubs[j].score

\* C7: score_round never modifies its argument: the argument Round keeps its
\* submission list and every Submission object that existed before the call
\* keeps all its fields; the scored values are on new objects.
C7_ArgumentUnchanged ==
    [][ScoreRound =>
        /\ round_' = round_
        /\ \A ref \in DOMAIN heap : heap'[ref] = heap[ref]
        /\ (ret' # None /\ NumSubs >= 1) =>
              \A i \in DOMAIN Val(ret').submissions :
                  Val(ret').submissions[i] \notin DOMAIN heap]_vars

\* a call has returned scored submissions while the argument is still unscored
C7_Witness ==
    /\ Returned
    /\ NumSubs >= 2
    /\ \A i \in DOMAIN ArgSubs : /\ ArgSubs[i].score = None
                                /\ ArgSubs[i].rank = None
    /\ \A i \in DOMAIN RetSubs : RetSubs[i].score # None
    /\ \E i \in DOMAIN RetSubs : RetSubs[i].name # ArgSubs[i].name

\* ------------------------------------------------------------------------
\* Properties of lists of rounds
\* ------------------------------------------------------------------------
\* the sum of the scores of the first k entries
RECURSIVE SumScores(_, _)
SumScores(entries, k) ==
    IF k = 0 THEN Num(0) ELSE Add(SumScores(entries, k - 1), Val(entries[k].sub.score))

\* the sum of the Total column over the first k rows
RECURSIVE SumTotal(_, _)
SumTotal(board, k) ==
    IF k = 0 THEN Num(0) ELSE Add(SumTotal(board, k - 1), board.Total[board.index[k]])

\* make_leaderboards has returned its tables
BoardsMade == pc = "boards" /\ boards # None

\* load_rounds has run on the text written by rounds_to_json
LoadDone == json # None /\ pc \in {"loaded", "raised"}

\* C9: loading the JSON written by rounds_to_json gives back a list of Rounds
\* equal field for field to the one written, whichever optional fields are null
C9_RoundTrip ==
    LoadDone => exc = "none" /\ loaded = Some(RoundValues(heap, rounds))

\* C10: the Total column of the points leaderboard sums to the sum of the
\* scores of all submissions of all the rounds passed to make_leaderboards
C10_TotalIsSumOfScores ==
    BoardsMade =>
        SumTotal(Val(boards).points, Len(Val(boards).points.index))
            = SumScores(AllEntries(heap, rounds, 1), Len(AllEntries(heap, rounds, 1)))

\* ------------------------------------------------------------------------
\* Properties of score_distances
\* ------------------------------------------------------------------------
\* the submission whose distance was replaced
Moved == CHOOSE i \in DOMAIN distances : closer[i] # distances[i]

\* both vectors have been scored
Compared == pc = "returned" /\ scores # None

\* the bonus of a rank, 0 for a rank without one
BonusOf(opts, rank) ==
    IF opts.rank_bonuses # None /\ rank \in DOMAIN Val(opts.rank_bonuses)
    THEN Val(opts.rank_bonuses)[rank]
    ELSE Num(0)

\* no rank has a smaller bonus than a worse rank
BonusesNonIncreasing(opts) ==
    \A better, worse \in 1 .. MaxSubs + 1 :
        better < worse => ~Less(BonusOf(opts, better), BonusOf(opts, worse))

\* the score of the moved submission is not smaller for the smaller distance
NotDecreased == ~Less(Val(scores)[2][Moved], Val(scores)[1][Moved])

ScenarioC ==
    /\ simulation # None
    /\ Val(simulation).strategy = Closest
    /\ Len(Val(simulation).point_sets) = 2
    /\ Len(Val(simulation).rounds) = 1
    /\ \A p \in 1 .. 2 : Len(Val(simulation).point_sets[p].points) = 1
    /\ haversine_distance(Val(simulation).point_sets[1].points[1], 0,
                          Val(simulation).rounds[1][2], 0)
         = haversine_distance(Val(simulation).point_sets[2].points[1], 0,
                              Val(simulation).rounds[1][2], 0)

\* the number of Gold medals of the medal leaderboard
RECURSIVE GoldTally(_, _)
GoldTally(medals, k) ==
    IF k = 0 THEN 0 ELSE medals.rows[medals.index[k]].Gold + GoldTally(medals, k - 1)

\* C4: in Scenario C the simulated round gives both submissions the same
\* distance and the same score, and the medal leaderboard made from that
\* round tallies exactly one Gold medal
C4_ScenarioCOneGold ==
    (ScenarioC /\ pc # "simulation") =>
        /\ pc \in {"simulated", "boards"}
        /\ Len(rounds) = 1
        /\ Len(rounds[1].submissions) = 2
        /\ heap[rounds[1].submissions[1]].distance = heap[rounds[1].submissions[2]].distance
        /\ heap[rounds[1].submissions[1]].score = heap[rounds[1].submissions[2]].score
        /\ pc = "boards" =>
              GoldTally(Val(boards).medals, Len(Val(boards).medals.index)) = 1

\* ------------------------------------------------------------------------
\* Properties of make_leaderboards
\* ------------------------------------------------------------------------
\* make_leaderboards has been called on the list and has returned or raised
LeaderboardsCalled == json = None /\ simulation = None /\ pc \in {"boards", "raised"}

\* some submission of some round lacks its score or its distance
SomeUnscored ==
    \E k \in DOMAIN rounds : \E i \in DOMAIN rounds[k].submissions :
        \/ heap[rounds[k].submissions[i]].score = None
        \/ heap[rounds[k].submissions[i]].distance = None

\* C11: make_leaderboards raises ValueError and returns no table whenever a
\* submission of a round has a null score or a null distance, and returns
\* the three leaderboards only when every submission is scored
C11_UnscoredIsValueError ==
    LeaderboardsCalled =>
        IF SomeUnscored
        THEN pc = "raised" /\ exc = "ValueError" /\ boards = None
        ELSE pc = "boards" /\ exc = "none" /\ boards # None

\* the call raised for a list of two rounds whose last submission has a
\* score but no distance
C11_Witness ==
    /\ LeaderboardsCalled
    /\ exc = "ValueError"
    /\ Len(rounds) = 2
    /\ Len(heap) >= 2
    /\ heap[Len(heap)].score # None
    /\ heap[Len(heap)].distance = None
    /\ \A ref \in 1 .. Len(heap) - 1 : heap[ref].score # None /\ heap[ref].distance # None

\* ------------------------------------------------------------------------
\* Properties of the comparisons
\* ------------------------------------------------------------------------
\* a comparison has just been called on the round as given, or on the
\* scored round
JustCompared == pc \in {"compared", "done"} /\ query # None

OnScored == pc = "done"

OnUnscored == pc = "compared"

\* the round the comparison was called on
ComparedRound == IF pc = "done" THEN Val(ret) ELSE round_

\* its submissions, in list order
ComparedSubs == SubsOf(heap, ComparedRound)

\* the comparison called was one that looks for the rival of one player
RivalOfOne ==
    /\ JustCompared
    /\ Val(query).op \in {"find_next_highest_placing", "compare_player_in_round"}

\* the submissions of the compared round with that name
SubsNamed(name) == {ComparedSubs[i] : i \in {j \in DOMAIN ComparedSubs : ComparedSubs[j].name = name}}

\* C12: in a scored round, the comparison called for a submission of rank
\* i+1, when some submission has rank i, returns a difference whose rival
\* has rank i and whose player_placing is i+1
C12_RivalIsNextRank ==
    (RivalOfOne /\ OnScored) =>
        \A player \in SubsNamed(Val(Val(query).subject)) :
            (\E i \in DOMAIN ComparedSubs : Val(ComparedSubs[i].rank) + 1 = Val(player.rank))
                => /\ exc = "none"
                   /\ Len(diffs) = 1
                   /\ diffs[1].player_placing = Val(player.rank)
                   /\ \A rival \in SubsNamed(diffs[1].rival) :
                         Val(rival.rank) + 1 = Val(player.rank)

\* the comparison called was find_next_highest_placing and returned a
\* SubmissionDifference
DifferenceFound ==
    /\ JustCompared
    /\ Val(query).op = "find_next_highest_placing"
    /\ exc = "none"
    /\ diffs # <<>>

\* C13 as stated: the distance_diff of a SubmissionDifference produced by
\* find_next_highest_placing is the rival's distance minus the player's,
\* and it is >= 0
C13_DistanceDiffRivalMinusPlayer ==
    DifferenceFound =>
        /\ distance_diff(diffs[1]) = diffs[1].rival_distance - diffs[1].player_distance
        /\ distance_diff(diffs[1]) >= 0

\* C13 amended: the distance_diff is the player's distance minus the
\* rival's, and it is >= 0 when the comparison is by distance
C13_DistanceDiffPlayerMinusRival ==
    DifferenceFound =>
        /\ distance_diff(diffs[1]) = diffs[1].player_distance - diffs[1].rival_distance
        /\ ~Val(query).by_score => distance_diff(diffs[1]) >= 0

\* a comparison by distance found a rival strictly nearer than the player
C13_Witness ==
    /\ DifferenceFound
    /\ ~Val(query).by_score
    /\ diffs[1].rival_distance < diffs[1].player_distance
    /\ distance_diff(diffs[1]) > 0

\* the key a comparison orders submission i by, smaller first: the distance
\* to the target, or the score negated
\* (the distance of a submission of an unscored round is the one to the target)
OrderedBefore(i, j, by_score) ==
    IF by_score
    THEN \/ Less(Val(ComparedSubs[j].score), Val(ComparedSubs[i].score))
         \/ ComparedSubs[j].score = ComparedSubs[i].score /\ i < j
    ELSE \E di \in {IF OnScored THEN Val(ComparedSubs[i].distance)
                    ELSE ArcUnits(ComparedRound.latitude, ComparedRound.longitude,
                                  ComparedSubs[i].latitude, ComparedSubs[i].longitude)},
            dj \in {IF OnScored THEN Val(ComparedSubs[j].distance)
                    ELSE ArcUnits(ComparedRound.latitude, ComparedRound.longitude,
                                  ComparedSubs[j].latitude, ComparedSubs[j].longitude)} :
            di < dj \/ (di = dj /\ i < j)

\* the named player has a submission and it is first in the comparison order
IsFirst(name, by_score) ==
    \E i \in DOMAIN ComparedSubs :
        /\ ComparedSubs[i].name = name
        /\ \A j \in DOMAIN ComparedSubs : j # i => OrderedBefore(i, j, by_score)

\* C14: compare_player_in_round, on a scored round or on an unscored round
\* by distance, returns None without raising exactly when the player has no
\* submission or the player's submission is first in the comparison order;
\* otherwise it returns a SubmissionDifference with player_placing >= 2
C14_NoneIffAbsentOrFirst ==
    (/\ JustCompared
     /\ Val(query).op = "compare_player_in_round"
     /\ OnScored \/ ~Val(query).by_score)
        => /\ exc = "none"
           /\ diffs = <<>> <=>
                 \/ SubsNamed(Val(Val(query).subject)) = {}
                 \/ IsFirst(Val(Val(query).subject), Val(query).by_score)
           /\ diffs # <<>> => diffs[1].player_placing >= 2

\* find_new_next_highest_distance has just been called
NewDistanceCalled ==
    /\ JustCompared
    /\ Val(query).op = "find_new_next_highest_distance"

\* the hypothetical distance: new_distance, or the distance of new_point
HypotheticalDistance ==
    IF Val(query).new_distance = None
    THEN haversine_distance(ComparedRound.latitude, ComparedRound.longitude,
                            Val(query).new_point, ComparedRound.longitude)
    ELSE Val(Val(query).new_distance)

\* the distance to the target of submission i of the compared round: the
\* one score_round stored, or the one of its coordinates
DistanceToTarget(i) ==
    IF ComparedSubs[i].distance # None
    THEN Val(ComparedSubs[i].distance)
    ELSE haversine_distance(ComparedRound.latitude, ComparedRound.longitude,
                            ComparedSubs[i].latitude, ComparedSubs[i].longitude)

\* C15: find_new_next_highest_distance returns None if and only if the
\* hypothetical distance is strictly smaller than the distance to the target
\* of every submission of the round, scored or not
C15_NoneIffWinsOutright ==
    NewDistanceCalled =>
        ((exc = "none" /\ diffs = <<>>)
            <=> \A i \in DOMAIN ComparedSubs : HypotheticalDistance < DistanceToTarget(i))

\* the number of submissions of the compared round at most as far as d
NotFartherThan(d) == Cardinality({i \in DOMAIN ComparedSubs : DistanceToTarget(i) <= d})

\* C16: a SubmissionDifference of find_new_next_highest_distance for a scored
\* round has player_placing = 1 + the number of submissions at most as far as
\* the hypothetical distance, which is new_distance_rank, and its rival is
\* the nearest-but-(player_placing - 2) submission: not farther than the
\* hypothetical, with no submission strictly between them
C16_PlacingIsDistanceRank ==
    (NewDistanceCalled /\ OnScored /\ exc = "none" /\ diffs # <<>>) =>
        /\ diffs[1].player_placing = 1 + NotFartherThan(HypotheticalDistance)
        /\ diffs[1].player_placing =
              new_distance_rank(heap, ComparedRound, HypotheticalDistance)
        /\ NotFartherThan(diffs[1].rival_distance) >= diffs[1].player_placing - 1
        /\ diffs[1].rival_distance <= HypotheticalDistance
        /\ ~\E i \in DOMAIN ComparedSubs :
              /\ diffs[1].rival_distance < DistanceToTarget(i)
              /\ DistanceToTarget(i) < HypotheticalDistance

\* C17: for an unscored round of n >= 2 submissions without distances,
\* find_all_next_highest_placings by distance raises nothing and yields
\* n - 1 differences, with the placings 2 .. n
C17_AllPlacingsOfUnscored ==
    (/\ JustCompared
     /\ OnUnscored
     /\ Val(query).op = "find_all_next_highest_placings"
     /\ ~Val(query).by_score
     /\ Len(ComparedSubs) >= 2)
        => /\ exc = "none"
           /\ Len(diffs) = Len(ComparedSubs) - 1
           /\ \A k \in DOMAIN diffs : diffs[k].player_placing = k + 1

\* C18: a call of find_next_highest_placing, compare_player_in_round or
\* find_all_closest_placings writes no field of any submission
C18_ComparisonWritesNothing ==
    [][(/\ query = None
        /\ query' # None
        /\ Val(query').op \in {"find_next_highest_placing", "compare_player_in_round",
                               "find_all_closest_placings"})
            => heap' = heap]_vars

\* ------------------------------------------------------------------------
\* Properties of simulate_rounds
\* ------------------------------------------------------------------------
\* simulate_rounds has just been called
SimulateCalled == simulation # None /\ pc \in {"simulated", "raised"}

\* the names of the rounds returned, in the order of the list
ReturnedNames == Tuple([k \in DOMAIN rounds |-> Val(rounds[k].name)])

\* C19: simulate_rounds returns one scored Round per entry of the rounds
\* mapping, in ascending order of the round_order numbers when round_order
\* is supplied and in the insertion order of the mapping when it is not
C19_OneScoredRoundPerEntry ==
    SimulateCalled =>
        /\ exc = "none"
        /\ Len(rounds) = Len(Val(simulation).rounds)
        /\ \A k \in DOMAIN rounds : is_scored(heap, rounds[k])
        /\ {ReturnedNames[k] : k \in DOMAIN rounds}
              = {Val(simulation).rounds[k][1] : k \in DOMAIN Val(simulation).rounds}
        /\ IF Val(simulation).round_order = None
           THEN \A k \in DOMAIN rounds : ReturnedNames[k] = Val(simulation).rounds[k][1]
           ELSE \A j, k \in DOMAIN rounds :
                   j < k => Val(Val(simulation).round_order)[ReturnedNames[j]]
                               <= Val(Val(simulation).round_order)[ReturnedNames[k]]

\* simulate_rounds has been called twice on the same Simulation and has
\* returned both times
SimulatedTwice ==
    /\ pc = "simulated"
    /\ replay # None
    /\ Val(replay).exc = "none"

\* C20: two calls of simulate_rounds on the same Simulation that return,
\* return equal lists of Rounds, whatever the strategy
C20_SimulateRoundsReproducible ==
    SimulatedTwice => RoundValues(heap, rounds) = RoundValues(heap, Val(replay).rounds)

\* the distance of a candidate of a player to the target of a returned
\* round, under the configured metric (use_haversine is true)
CandidateDistance(lat, k) == haversine_distance(lat, 0, rounds[k].latitude, 0)

\* the submissions of returned round k named after point set p
SubmissionsOf(k, p) ==
    {i \in DOMAIN rounds[k].submissions : heap[rounds[k].submissions[i]].name = p}

\* C21: simulate_round makes exactly one Submission for every point set,
\* named after it; with Closest it is at a nearest candidate of the player
\* and its distance is that minimum, with Furthest it is at a furthest one
C21_OneSubmissionPerPointSet ==
    SimulateCalled =>
        /\ exc = "none"
        /\ \A k \in DOMAIN rounds : \A p \in DOMAIN Val(simulation).point_sets :
              /\ Cardinality(SubmissionsOf(k, Val(simulation).point_sets[p].name)) = 1
              /\ \A i \in SubmissionsOf(k, Val(simulation).point_sets[p].name) :
                    \E sub \in {heap[rounds[k].submissions[i]]},
                       points \in {Val(simulation).point_sets[p].points} :
                        /\ \E c \in DOMAIN points : points[c] = sub.latitude
                        /\ Val(simulation).strategy = Closest =>
                              /\ \A c \in DOMAIN points :
                                    CandidateDistance(sub.latitude, k)
                                        <= CandidateDistance(points[c], k)
                              /\ sub.distance = Some(CandidateDistance(sub.latitude, k))
                        /\ Val(simulation).strategy = Furthest =>
                              \A c \in DOMAIN points :
                                  CandidateDistance(sub.latitude, k)
                                      >= CandidateDistance(points[c], k)

\* ------------------------------------------------------------------------
\* Properties of the leaderboards
\* ------------------------------------------------------------------------
\* the players with a submission in round k of the list
PlayersOf(k) == {heap[rounds[k].submissions[i]].name : i \in DOMAIN rounds[k].submissions}

\* the players with a submission in every round of the list
InEveryRound ==
    {name \in UNION {PlayersOf(k) : k \in DOMAIN rounds} :
        \A k \in DOMAIN rounds : name \in PlayersOf(k)}

\* C22: the distance leaderboard has a row for exactly the players who have
\* a submission in every round passed to make_leaderboards
C22_DistanceRowsInEveryRound ==
    BoardsMade =>
        {Val(boards).distance.index[i] : i \in DOMAIN Val(boards).distance.index}
            = InEveryRound

\* ------------------------------------------------------------------------
\* Properties of the summaries
\* ------------------------------------------------------------------------
\* get_player_summary has returned its frame
PlayerSummaryMade ==
    /\ pc = "summarised"
    /\ summary # None
    /\ Val(summary).op = "get_player_summary"
    /\ exc = "none"

\* the rounds in which a submission of the player holds the worst rank
RoundsWithWorstRank(name) ==
    {k \in DOMAIN rounds :
        \E i \in DOMAIN rounds[k].submissions :
            /\ heap[rounds[k].submissions[i]].name = name
            /\ \A j \in DOMAIN rounds[k].submissions :
                  Val(heap[rounds[k].submissions[j]].rank)
                      <= Val(heap[rounds[k].submissions[i]].rank)}

\* C23: rounds_lost of every player of get_player_summary is the number of
\* rounds in which the player's submission holds the worst rank of the round
C23_RoundsLostIsWorstRank ==
    PlayerSummaryMade =>
        \A name \in DOMAIN Val(Val(summary).ret).rows :
            Val(Val(summary).ret).rows[name].rounds_lost
                = Cardinality(RoundsWithWorstRank(name))

\* ------------------------------------------------------------------------
\* Properties of the distance queries
\* ------------------------------------------------------------------------
\* a distance query has returned
Measured == pc = "measured" /\ measure # None /\ exc = "none"

\* the distance of a point to the target of the query under the metric that
\* use_haversine names
MetricDistance(point) ==
    IF Val(measure).use_haversine
    THEN haversine_distance(Val(measure).target[2], Val(measure).target[1],
                            point[2], point[1])
    ELSE geod_distances(Val(measure).target[2], Val(measure).target[1],
                        point[2], point[1])

\* C24: get_distances, get_closest_index, get_furthest_index and
\* get_closest_point (for a Sequence and for another collection alike)
\* measure with the haversine metric when use_haversine is true and with the
\* geodesic when it is false
C24_MetricFollowsUseHaversine ==
    Measured =>
        \E m \in {Val(measure)} :
            CASE m.op = "get_distances" ->
                    \A i \in DOMAIN m.points : Val(m.ret)[i] = MetricDistance(m.points[i])
              [] m.op = "get_closest_index" ->
                    /\ Val(m.ret)[2] = MetricDistance(m.points[Val(m.ret)[1]])
                    /\ \A i \in DOMAIN m.points : Val(m.ret)[2] <= MetricDistance(m.points[i])
              [] m.op = "get_furthest_index" ->
                    /\ Val(m.ret)[2] = MetricDistance(m.points[Val(m.ret)[1]])
                    /\ \A i \in DOMAIN m.points : Val(m.ret)[2] >= MetricDistance(m.points[i])
              [] m.op = "get_closest_point" ->
                    /\ Val(m.ret)[2] = MetricDistance(Val(m.ret)[1])
                    /\ \A i \in DOMAIN m.points : Val(m.ret)[2] <= MetricDistance(m.points[i])

\* ------------------------------------------------------------------------
\* Properties of the distances and flags of score_round
\* ------------------------------------------------------------------------
\* the submission of the argument that a submission of the result was copied
\* from: the one with its name
ArgOf(k) == ArgSubs[CHOOSE i \in DOMAIN ArgSubs : ArgSubs[i].name = RetSubs[k].name]

\* some submission of the argument lacks a distance
SomeDistanceMissing == \E i \in DOMAIN ArgSubs : ArgSubs[i].distance = None

\* the distance of a submission to the target of the round under the metric
\* that use_haversine selects
SelectedMetric(sub) ==
    IF use_haversine
    THEN haversine_distance(sub.latitude, sub.longitude, round_.latitude, round_.longitude)
    ELSE geod_distances(round_.latitude, round_.longitude, sub.latitude, sub.longitude)

\* C25: when some submission lacks a distance, the returned Round has for
\* every submission, those that had a distance included, the distance under
\* the metric use_haversine selects; when none lacks one, every distance is
\* the one given, whatever use_haversine is
C25_DistancesRecomputedTogether ==
    (Returned /\ NumSubs >= 1) =>
        \A k \in DOMAIN RetSubs :
            RetSubs[k].distance =
                IF SomeDistanceMissing THEN Some(SelectedMetric(ArgOf(k)))
                ELSE ArgOf(k).distance

\* a Round with a stored distance and a missing one was scored with the
\* geodesic, and the stored distance was replaced
C25_Witness ==
    /\ Returned
    /\ ~use_haversine
    /\ SomeDistanceMissing
    /\ \E k \in DOMAIN RetSubs :
          /\ ArgOf(k).distance = Some(StoredDistance)
          /\ RetSubs[k].distance # Some(StoredDistance)
          /\ RetSubs[k].distance # Some(haversine_distance(ArgOf(k).latitude, 0,
                                                           round_.latitude, 0))

\* every submission had a distance, which does not agree with its
\* coordinates, and kept it
C25_WitnessKept ==
    /\ Returned
    /\ NumSubs >= 2
    /\ ~SomeDistanceMissing
    /\ \A k \in DOMAIN RetSubs :
          /\ RetSubs[k].distance = Some(StoredDistance)
          /\ SelectedMetric(RetSubs[k]) # StoredDistance

\* C26: with a fivek_threshold, score_round resolves the unknown is_5k flags
\* only, to distance <= fivek_threshold; a flag that is true or false is
\* kept whatever the distance, and no returned submission has an unknown flag
C26_OnlyUnknownFivekResolved ==
    (Returned /\ NumSubs >= 1) =>
        \A k \in DOMAIN RetSubs :
            /\ RetSubs[k].is_5k # None
            /\ ArgOf(k).is_5k = None =>
                  RetSubs[k].is_5k
                      = Some(Leq(Num(Val(RetSubs[k].distance)), fivek_threshold))
            /\ ArgOf(k).is_5k # None => RetSubs[k].is_5k = ArgOf(k).is_5k

\* a flag given as true far from the target and one given as false on the
\* target were kept, and an unknown one was resolved
C26_Witness ==
    /\ Returned
    /\ \E k \in DOMAIN RetSubs :
          /\ ArgOf(k).is_5k = Some(TRUE)
          /\ RetSubs[k].is_5k = Some(TRUE)
          /\ ~Leq(Num(Val(RetSubs[k].distance)), fivek_threshold)
    /\ \E k \in DOMAIN RetSubs :
          /\ ArgOf(k).is_5k = Some(FALSE)
          /\ RetSubs[k].is_5k = Some(FALSE)
          /\ Leq(Num(Val(RetSubs[k].distance)), fivek_threshold)
    /\ \E k \in DOMAIN RetSubs : ArgOf(k).is_5k = None /\ RetSubs[k].is_5k # None

\* ------------------------------------------------------------------------
\* Properties of the 5K and rank adjustments of score_distances
\* ------------------------------------------------------------------------
\* scores.round(round_to), if any
Rounded(score, opts) == IF opts.round_to = None THEN score ELSE RoundTo(score, Val(opts.round_to))

\* the score of submission i of the argument before any 5K adjustment: the
\* combined score with its rank bonus
PlainScore(i) ==
    The({WithRankBonus(Tuple([j \in DOMAIN ds |-> BaseScore(ds, j, options)]), i, options)
            : ds \in {RoundDistances(ArgSubs, round_, use_haversine)}})

\* the index in the argument of the submission returned at place k
ArgIndex(k) == CHOOSE i \in DOMAIN ArgSubs : ArgSubs[i].name = RetSubs[k].name

\* the returned submission at place k is overridden as an antipode 5K
AntipodeOverride(k) ==
    options.antipode_5k_flat_score # None /\ ArgOf(k).is_antipode_5k = Some(TRUE)

\* C27: a 5K scores exactly fivek_flat_score when that is set, without rank
\* bonus or fivek_bonus; fivek_bonus is added to a 5K only when
\* fivek_flat_score is unset; a submission flagged antipode 5K scores exactly
\* antipode_5k_flat_score when that is set, a 5K or not
C27_FivekAndAntipodeOverrides ==
    (Returned /\ NumSubs >= 1) =>
        \A k \in DOMAIN RetSubs :
            Val(RetSubs[k].score) =
                IF AntipodeOverride(k)
                THEN Rounded(Val(options.antipode_5k_flat_score), options)
                ELSE IF RetSubs[k].is_5k = Some(TRUE) /\ options.fivek_flat_score # None
                THEN Rounded(Val(options.fivek_flat_score), options)
                ELSE IF RetSubs[k].is_5k = Some(TRUE) /\ options.fivek_bonus # None
                THEN Rounded(Add(PlainScore(ArgIndex(k)), Val(options.fivek_bonus)), options)
                ELSE Rounded(PlainScore(ArgIndex(k)), options)

\* with a flat score, a 5K bonus and a winner's bonus all set, the winner is
\* a 5K and scores the flat score, and a 5K flagged antipode scores the
\* antipode score
C27_Witness ==
    /\ Returned
    /\ options.fivek_flat_score # None
    /\ options.fivek_bonus # None
    /\ \E k \in DOMAIN RetSubs :
          /\ ~AntipodeOverride(k)
          /\ RetSubs[k].is_5k = Some(TRUE)
          /\ DenseRank(Tuple([j \in DOMAIN ArgSubs |->
                                BaseScore(RoundDistances(ArgSubs, round_, use_haversine),
                                          j, options)]), ArgIndex(k))
                \in DOMAIN Val(options.rank_bonuses)
          /\ RetSubs[k].score = options.fivek_flat_score
    /\ \E k \in DOMAIN RetSubs :
          /\ AntipodeOverride(k)
          /\ RetSubs[k].is_5k = Some(TRUE)
          /\ RetSubs[k].score = options.antipode_5k_flat_score

\* the combined scores of the first vector of distances
CombinedScores == Tuple([i \in DOMAIN distances |-> BaseScore(distances, i, options)])

\* r ranks the combined scores densely, the highest score first: equal
\* scores share a rank, a lower score has a larger rank, and the ranks used
\* are 1 .. m without a gap
IsDenseRanking(r) ==
    /\ \A i, j \in DOMAIN CombinedScores :
          /\ r[i] = r[j] <=> CombinedScores[i] = CombinedScores[j]
          /\ r[i] < r[j] <=> Less(CombinedScores[j], CombinedScores[i])
    /\ \A i \in DOMAIN CombinedScores : \A below \in 1 .. r[i] - 1 :
          \E j \in DOMAIN CombinedScores : r[j] = below

\* C28: with rank_bonuses set, every submission receives exactly the bonus
\* listed for its dense rank by combined score, and nothing if that rank is
\* not listed
C28_BonusByDenseRank ==
    (Compared /\ Len(distances) >= 2 /\ options.rank_bonuses # None) =>
        \E r \in [DOMAIN distances -> 1 .. Len(distances)] :
            /\ IsDenseRanking(r)
            /\ \A i \in DOMAIN distances :
                  Val(scores)[1][i]
                      = Rounded(Add(CombinedScores[i], BonusOf(options, r[i])), options)

\* two submissions tie for the first rank and both get its bonus, and the
\* next one gets the bonus of the second rank
C28_Witness ==
    /\ Compared
    /\ options.rank_bonuses # None
    /\ {1, 2} \subseteq DOMAIN Val(options.rank_bonuses)
    /\ \E i, j, k \in DOMAIN distances :
          /\ i # j
          /\ CombinedScores[i] = CombinedScores[j]
          /\ Val(scores)[1][i]
                = Rounded(Add(CombinedScores[i], Val(options.rank_bonuses)[1]), options)
          /\ Val(scores)[1][j] = Val(scores)[1][i]
          /\ Less(CombinedScores[k], CombinedScores[i])
          /\ \A m \in DOMAIN distances : ~Less(CombinedScores[i], CombinedScores[m])
          /\ Val(scores)[1][k]
                = Rounded(Add(CombinedScores[k], Val(options.rank_bonuses)[2]), options)

\* ------------------------------------------------------------------------
\* Properties of the Average column
\* ------------------------------------------------------------------------
\* every row of the leaderboard has Average = Total / number of round columns
AverageOverRounds(board) ==
    \A i \in DOMAIN board.index :
        board.Average[board.index[i]]
            = DivInt(board.Total[board.index[i]], Len(board.columns))

\* C29: in the points and the distance leaderboards Average is Total divided
\* by the number of round columns
C29_AverageIsTotalOverRounds ==
    BoardsMade =>
        /\ AverageOverRounds(Val(boards).points)
        /\ AverageOverRounds(Val(boards).distance)

\* ------------------------------------------------------------------------
\* Properties of get_round_summary
\* ------------------------------------------------------------------------
\* get_round_summary has been called with its default arguments
RoundSummaryByDefault ==
    /\ pc = "summarised"
    /\ summary # None
    /\ Val(summary).op = "get_round_summary"
    /\ Val(summary).include_podium
    /\ Val(summary).include_loser

\* a named round with at least one submission, every one of them scored
ScoredRound(r) ==
    /\ r.name # None
    /\ r.submissions # <<>>
    /\ \A i \in DOMAIN r.submissions :
          /\ heap[r.submissions[i]].score # None
          /\ heap[r.submissions[i]].distance # None
          /\ heap[r.submissions[i]].rank # None

\* C30: get_round_summary with its default arguments returns one row per
\* round, without raising, for any list of scored rounds that each have at
\* least one submission; the winner of a row is the first submission of the
\* round and the loser the last
C30_RoundSummaryByDefault ==
    (/\ RoundSummaryByDefault
     /\ rounds # <<>>
     /\ \A k \in DOMAIN rounds : ScoredRound(rounds[k])) =>
        /\ exc = "none"
        /\ Val(summary).ret # None
        /\ Len(Val(Val(summary).ret)) = Len(rounds)
        /\ \A k \in DOMAIN rounds :
              /\ Val(Val(summary).ret)[k].winner
                    = submission_summary(heap[rounds[k].submissions[1]])
              /\ Val(Val(summary).ret)[k].loser
                    = Some(submission_summary(
                               heap[rounds[k].submissions[Len(rounds[k].submissions)]]))

====
